---- MODULE Spec2Model ----
(***************************************************************************)
(* Model of subspell's token-budget batching, chunking and merging core    *)
(* (src/subspell/utils.py), of the SpellChecker orchestration built on it  *)
(* (src/subspell/spellchecker.py), of the ASS writer                       *)
(* (src/subspell/subtitle.py) and of the GUI's spell check with its worker *)
(* thread (src/subspell/gui.py).                                           *)
(*                                                                         *)
(* A Python str is a sequence of one-character strings.  An item is the    *)
(* dict the subtitle reader produces, reduced to the keys the core reads:  *)
(* index, text and format.                                                 *)
(***************************************************************************)
EXTENDS Integers, Sequences, FiniteSets, TLC

\* ------------------------------------------------------------------ bounds
\* longest item sequence handed to batch_items
MaxItems == 4
\* largest max_tokens tried for batch_items
MaxBudget == 18
\* longest text handed to chunk_text and correct_text
MaxTextLen == 5
\* largest max_tokens / max_tokens_per_chunk tried for those texts
MaxChunkBudget == 3
\* largest overlap / chunk_overlap tried
MaxOverlap == 2
\* longest list of corrected chunks and of boundaries handed to the merger
MaxChunks == 2
\* longest subtitle list handed to correct_subtitles and correct_subtitle_file
MaxSubs == 2
\* largest batch_size tried (0 selects token-based batching)
MaxBatchSize == 2
\* largest max_tokens_per_chunk tried for subtitle correction
MaxSubBudget == 12

\* correct_text: longest text
MaxCorrectLen == 4

\* count_tokens: longest text, and calls made with one text
MaxTokenTextLen == 4

MaxTokenCalls == 2

\* ------------------------------------------------------------ characters
\* characters matched by the regex class \w among those the model uses
WordChars ==
    {"a", "b", "c", "_", "A", "B", "E", "I", "K", "L", "N", "O", "P", "R",
     "S", "T", "U"}

\* characters matched by the regex class \s among those the model uses
SpaceChars == {" ", "\n"}

IsWord(ch) == ch \in WordChars

IsSpace(ch) == ch \in SpaceChars

\* the literal "\n===SUBTITLE_SEPARATOR===\n"
SUBTITLE_SEPARATOR ==
    <<"\n", "=", "=", "=", "S", "U", "B", "T", "I", "T", "L", "E", "_",
      "S", "E", "P", "A", "R", "A", "T", "O", "R", "=", "=", "=", "\n">>

\* the literal "§SEP§" of correct_subtitles
separator_str == <<"§", "S", "E", "P", "§">>

\* the ASS line break "\N" and the placeholder that stands in for it
ASS_LINE_BREAK == <<"\\", "N">>

LINEBREAK_PLACEHOLDER == <<"§", "L", "I", "N", "E", "B", "R", "E", "A", "K", "§">>

\* the last position of the run of word characters that position i is in
RECURSIVE WordRunEnd(_, _)
WordRunEnd(text, i) ==
    IF i < Len(text) /\ IsWord(text[i + 1]) THEN WordRunEnd(text, i + 1) ELSE i

\* re.findall(r"\w+", text) from position i on: the leftmost match is taken, as
\* long as it can be, and the scan goes on behind it
RECURSIVE FindAllWords(_, _)
FindAllWords(text, i) ==
    IF i > Len(text) THEN <<>>
    ELSE IF IsWord(text[i])
         THEN <<SubSeq(text, i, WordRunEnd(text, i))>>
                 \o FindAllWords(text, WordRunEnd(text, i) + 1)
         ELSE FindAllWords(text, i + 1)

\* re.findall(r"[^\w\s]", text) from position i on
RECURSIVE FindAllPunctuation(_, _)
FindAllPunctuation(text, i) ==
    IF i > Len(text) THEN <<>>
    ELSE IF ~IsWord(text[i]) /\ ~IsSpace(text[i])
         THEN <<text[i]>> \o FindAllPunctuation(text, i + 1)
         ELSE FindAllPunctuation(text, i + 1)

\* mutant: the punctuation pattern leaves out \s
count_tokens_nonword(text) ==
    Len(FindAllWords(text, 1)) + Cardinality({i \in 1..Len(text) : ~IsWord(text[i])})

\* len(words) + len(punctuation)
count_tokens(text) ==
    Len(FindAllWords(text, 1)) + Len(FindAllPunctuation(text, 1))

\* ------------------------------------------------------------- batch_items
separator_tokens == count_tokens(SUBTITLE_SEPARATOR)

\* smallest max_tokens_per_chunk tried for subtitle correction: two one-token
\* items and their separator fit one batch
MinSubBudget == separator_tokens + 2

\* the locals of batch_items before its loop
BatchStart == [batches |-> <<>>, current_batch |-> <<>>, current_token_count |-> 0]

\* mutant: an oversized item is added to the open batch, which is then flushed
BatchBodyJoinOversized(st, item, max_tokens) ==
    LET item_tokens == count_tokens(item.text) IN
    IF item_tokens >= max_tokens
    THEN [batches |-> Append(st.batches, Append(st.current_batch, item)),
          current_batch |-> <<>>,
          current_token_count |-> 0]
    ELSE IF st.current_batch # <<>>
            /\ st.current_token_count + item_tokens + separator_tokens > max_tokens
    THEN [batches |-> Append(st.batches, st.current_batch),
          current_batch |-> <<item>>,
          current_token_count |-> item_tokens]
    ELSE [batches |-> st.batches,
          current_batch |-> Append(st.current_batch, item),
          current_token_count |->
              st.current_token_count + item_tokens
              + (IF Len(st.current_batch) + 1 > 1 THEN separator_tokens ELSE 0)]

\* mutant: the open batch is discarded, not flushed, before an oversized item
BatchBodyNoFlush(st, item, max_tokens) ==
    LET item_tokens == count_tokens(item.text) IN
    IF item_tokens >= max_tokens
    THEN [batches |-> st.batches \o <<(<<item>>)>>,
          current_batch |-> <<>>,
          current_token_count |-> 0]
    ELSE IF st.current_batch # <<>>
            /\ st.current_token_count + item_tokens + separator_tokens > max_tokens
    THEN [batches |-> Append(st.batches, st.current_batch),
          current_batch |-> <<item>>,
          current_token_count |-> item_tokens]
    ELSE [batches |-> st.batches,
          current_batch |-> Append(st.current_batch, item),
          current_token_count |->
              st.current_token_count + item_tokens
              + (IF Len(st.current_batch) + 1 > 1 THEN separator_tokens ELSE 0)]

\* mutant: the budget test forgets the separator's tokens
BatchBodyNoSeparator(st, item, max_tokens) ==
    LET item_tokens == count_tokens(item.text) IN
    IF item_tokens >= max_tokens
    THEN [batches |-> (IF st.current_batch # <<>>
                       THEN Append(st.batches, st.current_batch)
                       ELSE st.batches) \o <<(<<item>>)>>,
          current_batch |-> <<>>,
          current_token_count |-> 0]
    ELSE IF st.current_batch # <<>>
            /\ st.current_token_count + item_tokens > max_tokens
    THEN [batches |-> Append(st.batches, st.current_batch),
          current_batch |-> <<item>>,
          current_token_count |-> item_tokens]
    ELSE [batches |-> st.batches,
          current_batch |-> Append(st.current_batch, item),
          current_token_count |->
              st.current_token_count + item_tokens
              + (IF Len(st.current_batch) + 1 > 1 THEN separator_tokens ELSE 0)]

\* mutant: the open batch is closed as soon as the item would reach the limit
BatchBodyEagerClose(st, item, max_tokens) ==
    LET item_tokens == count_tokens(item.text) IN
    IF item_tokens >= max_tokens
    THEN [batches |-> (IF st.current_batch # <<>>
                       THEN Append(st.batches, st.current_batch)
                       ELSE st.batches) \o <<(<<item>>)>>,
          current_batch |-> <<>>,
          current_token_count |-> 0]
    ELSE IF st.current_batch # <<>>
            /\ st.current_token_count + item_tokens + separator_tokens >= max_tokens
    THEN [batches |-> Append(st.batches, st.current_batch),
          current_batch |-> <<item>>,
          current_token_count |-> item_tokens]
    ELSE [batches |-> st.batches,
          current_batch |-> Append(st.current_batch, item),
          current_token_count |->
              st.current_token_count + item_tokens
              + (IF Len(st.current_batch) + 1 > 1 THEN separator_tokens ELSE 0)]

\* mutant: the running total is not reset when an oversized item closes the batch
BatchBodyKeepsTotal(st, item, max_tokens) ==
    LET item_tokens == count_tokens(item.text) IN
    IF item_tokens >= max_tokens
    THEN [batches |-> (IF st.current_batch # <<>>
                       THEN Append(st.batches, st.current_batch)
                       ELSE st.batches) \o <<(<<item>>)>>,
          current_batch |-> <<>>,
          current_token_count |-> st.current_token_count]
    ELSE IF st.current_batch # <<>>
            /\ st.current_token_count + item_tokens + separator_tokens > max_tokens
    THEN [batches |-> Append(st.batches, st.current_batch),
          current_batch |-> <<item>>,
          current_token_count |-> item_tokens]
    ELSE [batches |-> st.batches,
          current_batch |-> Append(st.current_batch, item),
          current_token_count |->
              st.current_token_count + item_tokens
              + (IF Len(st.current_batch) + 1 > 1 THEN separator_tokens ELSE 0)]

\* one iteration of the loop of batch_items over `item`
BatchBody(st, item, max_tokens) ==
    LET item_tokens == count_tokens(item.text) IN
    IF item_tokens >= max_tokens
    THEN [batches |-> (IF st.current_batch # <<>>
                       THEN Append(st.batches, st.current_batch)
                       ELSE st.batches) \o <<(<<item>>)>>,
          current_batch |-> <<>>,
          current_token_count |-> 0]
    ELSE IF st.current_batch # <<>>
            /\ st.current_token_count + item_tokens + separator_tokens > max_tokens
    THEN [batches |-> Append(st.batches, st.current_batch),
          current_batch |-> <<item>>,
          current_token_count |-> item_tokens]
    ELSE [batches |-> st.batches,
          current_batch |-> Append(st.current_batch, item),
          current_token_count |->
              st.current_token_count + item_tokens
              + (IF Len(st.current_batch) + 1 > 1 THEN separator_tokens ELSE 0)]

\* the flush after the loop: the open batch is added if it is not empty
BatchFlush(st) ==
    IF st.current_batch # <<>> THEN Append(st.batches, st.current_batch)
    ELSE st.batches

RECURSIVE BatchLoop(_, _, _, _)
BatchLoop(st, its, k, max_tokens) ==
    IF k > Len(its) THEN st
    ELSE BatchLoop(BatchBody(st, its[k], max_tokens), its, k + 1, max_tokens)

\* batch_items(items, max_tokens) as one call
batch_items(its, max_tokens) ==
    IF its = <<>> THEN <<>>
    ELSE BatchFlush(BatchLoop(BatchStart, its, 1, max_tokens))

\* a call of batch_items with the positional arguments `args`: the signature
\* takes items, max_tokens and text_key, and any other count is a TypeError
batch_items_call(args) ==
    IF Len(args) \in {2, 3}
    THEN [raised |-> "none", value |-> batch_items(args[1], args[2])]
    ELSE [raised |-> "TypeError", value |-> <<>>]

\* ---------------------------------------------------------- str methods
\* text[i:] and text[:i] with Python's 0-based bounds
DropFirst(text, n) == SubSeq(text, n + 1, Len(text))

TakeFirst(text, n) == SubSeq(text, 1, n)

\* text.startswith(sep) at 1-based position i
MatchesAt(text, sep, i) ==
    /\ i + Len(sep) - 1 <= Len(text)
    /\ \A k \in 1..Len(sep) : text[i + k - 1] = sep[k]

\* str.split(sep): the pieces between the non-overlapping occurrences of sep,
\* scanned left to right
RECURSIVE SplitOn(_, _)
SplitOn(text, sep) ==
    LET hits == {i \in 1..Len(text) : MatchesAt(text, sep, i)} IN
    IF hits = {} THEN <<text>>
    ELSE LET i == CHOOSE h \in hits : \A g \in hits : h <= g IN
         <<TakeFirst(text, i - 1)>> \o SplitOn(DropFirst(text, i + Len(sep) - 1), sep)

\* sep.join(parts)
RECURSIVE JoinWith(_, _)
JoinWith(parts, sep) ==
    IF parts = <<>> THEN <<>>
    ELSE IF Len(parts) = 1 THEN parts[1]
    ELSE parts[1] \o sep \o JoinWith(Tail(parts), sep)

\* length of the run of whitespace that starts at 1-based position i
RECURSIVE SpaceRun(_, _)
SpaceRun(text, i) ==
    IF i <= Len(text) /\ IsSpace(text[i]) THEN 1 + SpaceRun(text, i + 1) ELSE 0

\* length of the run of non-whitespace that starts at 1-based position i
RECURSIVE WordRun(_, _)
WordRun(text, i) ==
    IF i <= Len(text) /\ ~IsSpace(text[i]) THEN 1 + WordRun(text, i + 1) ELSE 0

\* str.split() and re.findall(r"\S+", text): the maximal runs of non-whitespace
RECURSIVE SplitWords(_)
SplitWords(text) ==
    IF text = <<>> THEN <<>>
    ELSE IF IsSpace(text[1]) THEN SplitWords(DropFirst(text, SpaceRun(text, 1)))
    ELSE LET n == WordRun(text, 1) IN
         <<TakeFirst(text, n)>> \o SplitWords(DropFirst(text, n))

\* str.replace(old, new): every non-overlapping occurrence, left to right
RECURSIVE ReplaceAll(_, _, _)
ReplaceAll(text, old, new) ==
    LET hits == {i \in 1..Len(text) : MatchesAt(text, old, i)} IN
    IF hits = {} THEN text
    ELSE LET i == CHOOSE h \in hits : \A g \in hits : h <= g IN
         TakeFirst(text, i - 1) \o new
            \o ReplaceAll(DropFirst(text, i + Len(old) - 1), old, new)

\* str.endswith(suffix)
EndsWith(text, suffix) ==
    /\ Len(suffix) <= Len(text)
    /\ DropFirst(text, Len(text) - Len(suffix)) = suffix

\* str.strip(): without its leading and trailing whitespace
RECURSIVE Strip(_)
Strip(text) ==
    IF text = <<>> THEN text
    ELSE IF IsSpace(text[1]) THEN Strip(Tail(text))
    ELSE IF IsSpace(text[Len(text)]) THEN Strip(TakeFirst(text, Len(text) - 1))
    ELSE text

SentenceEnd == {".", "!", "?"}

\* re.split(r"(?<=[.!?])\s+", paragraph): cut at every whitespace run that
\* directly follows '.', '!' or '?'
RECURSIVE SplitSentences(_)
SplitSentences(paragraph) ==
    LET cuts == {i \in 1..(Len(paragraph) - 1) :
                    paragraph[i] \in SentenceEnd /\ IsSpace(paragraph[i + 1])} IN
    IF cuts = {} THEN <<paragraph>>
    ELSE LET i == CHOOSE c \in cuts : \A d \in cuts : c <= d IN
         <<TakeFirst(paragraph, i)>>
            \o SplitSentences(DropFirst(paragraph, i + SpaceRun(paragraph, i + 1)))

\* ------------------------------------------------------------- chunk_text
\* words[-overlap_tokens:] joined by " " plus a trailing " ", or the whole
\* text when it has no more words than that
get_overlap_text(text, overlap_tokens) ==
    LET words == SplitWords(text) IN
    IF Len(words) <= overlap_tokens THEN text
    ELSE JoinWith(SubSeq(words, Len(words) - overlap_tokens + 1, Len(words)), <<" ">>)
            \o <<" ">>

\* the locals of chunk_text before its loop
ChunkStart == [chunks |-> <<>>, current_chunk |-> <<>>, current_tokens |-> 0]

\* mutant: the running chunk is dropped, not closed, when a piece would exceed
\* the limit
ChunkAddDropsOpen(st, piece, sep, max_tokens) ==
    LET piece_tokens == count_tokens(piece) IN
    IF st.current_tokens + piece_tokens > max_tokens
    THEN [chunks |-> st.chunks,
          current_chunk |-> piece,
          current_tokens |-> piece_tokens]
    ELSE [chunks |-> st.chunks,
          current_chunk |-> IF st.current_chunk # <<>>
                            THEN st.current_chunk \o sep \o piece ELSE piece,
          current_tokens |-> st.current_tokens + piece_tokens]

\* the greedy accumulation of one piece (a paragraph or a sentence): close the
\* running chunk when the piece would exceed the limit, else join it with sep
ChunkAdd(st, piece, sep, max_tokens) ==
    LET piece_tokens == count_tokens(piece) IN
    IF st.current_tokens + piece_tokens > max_tokens
    THEN [chunks |-> IF st.current_chunk # <<>>
                     THEN Append(st.chunks, st.current_chunk) ELSE st.chunks,
          current_chunk |-> piece,
          current_tokens |-> piece_tokens]
    ELSE [chunks |-> st.chunks,
          current_chunk |-> IF st.current_chunk # <<>>
                            THEN st.current_chunk \o sep \o piece ELSE piece,
          current_tokens |-> st.current_tokens + piece_tokens]

RECURSIVE ChunkSentences(_, _, _, _)
ChunkSentences(st, sentences, k, max_tokens) ==
    IF k > Len(sentences) THEN st
    ELSE ChunkSentences(ChunkAdd(st, sentences[k], <<" ">>, max_tokens),
                        sentences, k + 1, max_tokens)

\* one iteration of `for paragraph in paragraphs`
ChunkParagraph(st, paragraph, max_tokens) ==
    IF count_tokens(paragraph) > max_tokens
    THEN ChunkSentences(st, SplitSentences(paragraph), 1, max_tokens)
    ELSE ChunkAdd(st, paragraph, <<"\n", "\n">>, max_tokens)

RECURSIVE ChunkParagraphs(_, _, _, _)
ChunkParagraphs(st, paragraphs, k, max_tokens) ==
    IF k > Len(paragraphs) THEN st
    ELSE ChunkParagraphs(ChunkParagraph(st, paragraphs[k], max_tokens),
                         paragraphs, k + 1, max_tokens)

\* the base chunks: the loop over the paragraphs and the flush after it
BaseChunks(text, max_tokens) ==
    LET st == ChunkParagraphs(ChunkStart, SplitOn(text, <<"\n", "\n">>), 1, max_tokens) IN
    IF st.current_chunk # <<>> THEN Append(st.chunks, st.current_chunk) ELSE st.chunks

\* the overlap pass: every chunk but the first gets the tail of its predecessor
AddOverlaps(base, overlap) ==
    IF Len(base) > 1 /\ overlap > 0
    THEN [i \in 1..Len(base) |->
            IF i = 1 THEN base[1]
            ELSE get_overlap_text(base[i - 1], overlap) \o base[i]]
    ELSE base

\* mutant: the early return is taken only below the limit, not at it
chunk_text_strict(text, max_tokens, overlap) ==
    IF count_tokens(text) < max_tokens THEN <<text>>
    ELSE AddOverlaps(BaseChunks(text, max_tokens), overlap)

chunk_text(text, max_tokens, overlap) ==
    IF count_tokens(text) <= max_tokens THEN <<text>>
    ELSE AddOverlaps(BaseChunks(text, max_tokens), overlap)

\* --------------------------------------------------- merge_corrected_chunks
Max(a, b) == IF a >= b THEN a ELSE b

Min(a, b) == IF a <= b THEN a ELSE b

\* the loop over zip(corrected_chunks, chunk_boundaries), from pair i onwards
RECURSIVE MergeLoop(_, _, _, _)
MergeLoop(result, corrected_chunks, n, i) ==
    IF i > n THEN result
    ELSE IF i > 1
    THEN LET words == SplitWords(corrected_chunks[i])
             half_point == Max(1, Len(words) \div 2) IN
         MergeLoop(result \o <<" ">>
                      \o JoinWith(DropFirst(words, Min(half_point, Len(words))), <<" ">>),
                   corrected_chunks, n, i + 1)
    ELSE MergeLoop(corrected_chunks[1], corrected_chunks, n, i + 1)

\* mutant: no early return for a single chunk, the loop handles it
merge_corrected_chunks_loop_only(original_text, corrected_chunks, chunk_boundaries) ==
    MergeLoop(<<>>, corrected_chunks,
              Min(Len(corrected_chunks), Len(chunk_boundaries)), 1)

merge_corrected_chunks(original_text, corrected_chunks, chunk_boundaries) ==
    IF Len(corrected_chunks) = 1 THEN corrected_chunks[1]
    ELSE MergeLoop(<<>>, corrected_chunks,
                   Min(Len(corrected_chunks), Len(chunk_boundaries)), 1)

\* ---------------------------------------------------------------- helpers
RECURSIVE Flatten(_)
Flatten(seqs) ==
    IF seqs = <<>> THEN <<>> ELSE Head(seqs) \o Flatten(Tail(seqs))

RECURSIVE SumTokens(_)
SumTokens(its) ==
    IF its = <<>> THEN 0 ELSE count_tokens(Head(its).text) + SumTokens(Tail(its))

\* item estimates plus one separator estimate between each adjacent pair
CombinedEstimate(batch) ==
    SumTokens(batch) + (Len(batch) - 1) * separator_tokens

\* ------------------------------------------------------------------ state
VARIABLES
    items,                \* batch_items: the argument `items`
    max_tokens,           \* batch_items: the argument `max_tokens`
    batches,              \* batch_items: the local `batches`
    current_batch,        \* batch_items: the local `current_batch`
    current_token_count,  \* batch_items: the local `current_token_count`
    b_next,               \* batch_items: position of the loop's next item
    b_pc,                 \* batch_items: "loop" | "done"
    c_text,               \* chunk_text: the argument `text`
    c_max_tokens,         \* chunk_text: the argument `max_tokens`
    c_overlap,            \* chunk_text: the argument `overlap`
    c_chunks,             \* chunk_text: the returned list
    c_pc,                 \* chunk_text: "call" | "done"
    m_original_text,      \* merge_corrected_chunks: the argument `original_text`
    m_corrected_chunks,   \* merge_corrected_chunks: the argument `corrected_chunks`
    m_chunk_boundaries,   \* merge_corrected_chunks: the argument `chunk_boundaries`
    m_result,             \* merge_corrected_chunks: the returned text
    m_pc,                 \* merge_corrected_chunks: "call" | "done"
    max_tokens_per_chunk, \* SpellChecker.max_tokens_per_chunk
    chunk_overlap,        \* SpellChecker.chunk_overlap
    text,                 \* correct_text: the argument `text`
    chunks,               \* correct_text: the local `chunks`
    corrected_chunks,     \* correct_text: the local `corrected_chunks`
    ct_result,            \* correct_text: the returned text
    ct_raised,            \* correct_text: the exception it ended with
    ct_pc,                \* correct_text: "idle" | "start" | "short_wait" | "loop" |
                          \*    "chunk_wait" | "done" | "raised"
    calls,                \* provider.correct_text: the texts it was called with
    responses,            \* provider.correct_text: the texts it returned
    in_flight,            \* provider.correct_text: calls entered and not yet left
    provider_error,       \* provider.correct_text: the exception it raised
    subtitles,            \* correct_subtitles: the argument `subtitles`
    cs_batch_size,        \* correct_subtitles: the argument `batch_size`
    cs_batches,           \* correct_subtitles: the local `batches`
    cs_next,              \* correct_subtitles: position of the loop's next batch
    corrected_subtitles,  \* correct_subtitles: the local `corrected_subtitles`
    cs_raised,            \* correct_subtitles: the exception it ended with
    cs_pc,                \* correct_subtitles: "idle" | "start" | "loop" | "done" | "raised"
    parsed,               \* correct_subtitle_file: the items as the reader returned them
    subtitle_data,        \* correct_subtitle_file: the local `subtitle_data`
    f_batch_size,         \* correct_subtitle_file: the argument `batch_size`
    f_batches,            \* correct_subtitle_file: `batches`, as positions in subtitle_data
    f_next,               \* correct_subtitle_file: position of the loop's next batch
    written,              \* correct_subtitle_file: what write_subtitle_file wrote
    f_raised,             \* correct_subtitle_file: the exception it ended with
    f_pc,                 \* correct_subtitle_file: "idle" | "start" | "loop" | "done" |
                          \*    "raised"
    stderr,               \* cli.main: what it printed to sys.stderr
    exit_code,            \* cli.main: the value it returned to sys.exit
    cli_pc,               \* cli.main: "idle" | "running" | "exited"
    t_text,               \* count_tokens: the argument `text`
    t_counts,             \* count_tokens: what the calls so far returned
    a_subtitles,          \* write_ass: the argument `subtitles`
    a_events,             \* write_ass: the events of the file it saved
    a_raised,             \* write_ass: the exception it ended with
    a_pc,                 \* write_ass: "idle" | "call" | "done" | "raised"
    g_subtitles,          \* gui: self.subtitles, the Subtitle objects of the editor
    check_btn,            \* gui: state of the check button, "normal" | "disabled"
    result_container,     \* check_spelling: the dict shared with the worker thread
    g_error,              \* check_spelling: the local `error`
    g_result,             \* check_spelling: the local `result`
    g_pc,                 \* check_spelling: "idle" | "start" | "waiting" | "joined" |
                          \*    "error" | "empty" | "success"
    w_pc                  \* worker thread: "none" | "started" | "calling" | "stored" |
                          \*    "terminated"

batchVars ==
    <<items, max_tokens, batches, current_batch, current_token_count, b_next, b_pc>>

chunkVars == <<c_text, c_max_tokens, c_overlap, c_chunks, c_pc>>

mergeVars ==
    <<m_original_text, m_corrected_chunks, m_chunk_boundaries, m_result, m_pc>>

checkerVars == <<max_tokens_per_chunk, chunk_overlap>>

textVars == <<text, chunks, corrected_chunks, ct_result, ct_raised, ct_pc>>

providerVars == <<calls, responses, in_flight, provider_error>>

subsVars ==
    <<subtitles, cs_batch_size, cs_batches, cs_next, corrected_subtitles, cs_raised, cs_pc>>

fileVars ==
    <<parsed, subtitle_data, f_batch_size, f_batches, f_next, written, f_raised, f_pc>>

cliVars == <<stderr, exit_code, cli_pc>>

tokenVars == <<t_text, t_counts>>

assVars == <<a_subtitles, a_events, a_raised, a_pc>>

guiVars ==
    <<g_subtitles, check_btn, result_container, g_error, g_result, g_pc, w_pc>>

vars ==
    <<batchVars, chunkVars, mergeVars, checkerVars, textVars, providerVars,
      subsVars, fileVars, cliVars, tokenVars, assVars, guiVars>>

\* texts of the items the reader supplies: 1, 2, 3 and 10 estimated tokens
ItemTexts ==
    {<<"a">>, <<"a", " ", "b">>, <<"a", ",", "b">>,
     <<"a", "!", "!", "!", "!", "!", "!", "!", "!", "!">>}

MkItems(texts) ==
    [i \in 1..Len(texts) |-> [index |-> i, text |-> texts[i], format |-> "srt"]]

ItemSeqs ==
    {MkItems(texts) : texts \in UNION {[1..n -> ItemTexts] : n \in 0..MaxItems}}

\* the texts over a word character, a sentence end, a blank and a line break
TextAlphabet == {"a", ".", " ", "\n"}

Texts == UNION {[1..n -> TextAlphabet] : n \in 0..MaxTextLen}

BatchIdle ==
    /\ items = <<>>
    /\ max_tokens = 0
    /\ batches = <<>>
    /\ current_batch = <<>>
    /\ current_token_count = 0
    /\ b_next = 1
    /\ b_pc = "idle"

ChunkIdle ==
    /\ c_text = <<>>
    /\ c_max_tokens = 0
    /\ c_overlap = 0
    /\ c_chunks = <<>>
    /\ c_pc = "idle"

MergeIdle ==
    /\ m_original_text = <<>>
    /\ m_corrected_chunks = <<>>
    /\ m_chunk_boundaries = <<>>
    /\ m_result = <<>>
    /\ m_pc = "idle"

CheckerIdle ==
    /\ max_tokens_per_chunk = 0
    /\ chunk_overlap = 0

TextIdle ==
    /\ text = <<>>
    /\ chunks = <<>>
    /\ corrected_chunks = <<>>
    /\ ct_result = <<>>
    /\ ct_raised = "none"
    /\ ct_pc = "idle"

ProviderIdle ==
    /\ calls = <<>>
    /\ responses = <<>>
    /\ in_flight = 0
    /\ provider_error = "none"

SubsIdle ==
    /\ subtitles = <<>>
    /\ cs_batch_size = 0
    /\ cs_batches = <<>>
    /\ cs_next = 1
    /\ corrected_subtitles = <<>>
    /\ cs_raised = "none"
    /\ cs_pc = "idle"

FileIdle ==
    /\ parsed = <<>>
    /\ subtitle_data = <<>>
    /\ f_batch_size = 0
    /\ f_batches = <<>>
    /\ f_next = 1
    /\ written = <<>>
    /\ f_raised = "none"
    /\ f_pc = "idle"

CliIdle ==
    /\ stderr = <<>>
    /\ exit_code = 0
    /\ cli_pc = "idle"

TokenIdle ==
    /\ t_text = <<>>
    /\ t_counts = <<>>

AssIdle ==
    /\ a_subtitles = <<>>
    /\ a_events = <<>>
    /\ a_raised = "none"
    /\ a_pc = "idle"

\* Python's None
None == "None"

GuiIdle ==
    /\ g_subtitles = <<>>
    /\ check_btn = "normal"
    /\ result_container = [result |-> None, error |-> None]
    /\ g_error = None
    /\ g_result = None
    /\ g_pc = "idle"
    /\ w_pc = "none"

InitBatch ==
    /\ items \in ItemSeqs
    /\ max_tokens \in (-1)..MaxBudget
    /\ batches = <<>>
    /\ current_batch = <<>>
    /\ current_token_count = 0
    /\ b_next = 1
    /\ b_pc = "loop"
    /\ ChunkIdle /\ MergeIdle /\ CheckerIdle /\ TextIdle /\ ProviderIdle
    /\ SubsIdle /\ FileIdle /\ CliIdle /\ TokenIdle /\ AssIdle /\ GuiIdle

\* `if not items: return []`
BatchEmpty ==
    /\ b_pc = "loop"
    /\ items = <<>>
    /\ b_pc' = "done"
    /\ UNCHANGED <<items, max_tokens, batches, current_batch, current_token_count, b_next>>
    /\ UNCHANGED <<chunkVars, mergeVars, checkerVars, textVars, providerVars>>
    /\ UNCHANGED <<subsVars, fileVars, cliVars, tokenVars, assVars, guiVars>>

\* one iteration of `for item in items`
BatchIter ==
    /\ b_pc = "loop"
    /\ b_next <= Len(items)
    /\ LET st == BatchBody([batches |-> batches, current_batch |-> current_batch,
                            current_token_count |-> current_token_count],
                           items[b_next], max_tokens)
       IN /\ batches' = st.batches
          /\ current_batch' = st.current_batch
          /\ current_token_count' = st.current_token_count
    /\ b_next' = b_next + 1
    /\ UNCHANGED <<items, max_tokens, b_pc>>
    /\ UNCHANGED <<chunkVars, mergeVars, checkerVars, textVars, providerVars>>
    /\ UNCHANGED <<subsVars, fileVars, cliVars, tokenVars, assVars, guiVars>>

\* the flush after the loop and `return batches`
BatchReturn ==
    /\ b_pc = "loop"
    /\ items # <<>>
    /\ b_next > Len(items)
    /\ batches' = BatchFlush([batches |-> batches, current_batch |-> current_batch,
                              current_token_count |-> current_token_count])
    /\ b_pc' = "done"
    /\ UNCHANGED <<items, max_tokens, current_batch, current_token_count, b_next>>
    /\ UNCHANGED <<chunkVars, mergeVars, checkerVars, textVars, providerVars>>
    /\ UNCHANGED <<subsVars, fileVars, cliVars, tokenVars, assVars, guiVars>>

NextBatch == BatchEmpty \/ BatchIter \/ BatchReturn

SpecBatch == InitBatch /\ [][NextBatch]_vars

\* ------------------------------------------------- chunk_text, as one call
InitChunk ==
    /\ c_text \in Texts
    /\ c_max_tokens \in (-1)..MaxChunkBudget
    /\ c_overlap \in 0..MaxOverlap
    /\ c_chunks = <<>>
    /\ c_pc = "call"
    /\ BatchIdle /\ MergeIdle /\ CheckerIdle /\ TextIdle /\ ProviderIdle
    /\ SubsIdle /\ FileIdle /\ CliIdle /\ TokenIdle /\ AssIdle /\ GuiIdle

ChunkCall ==
    /\ c_pc = "call"
    /\ c_chunks' = chunk_text(c_text, c_max_tokens, c_overlap)
    /\ c_pc' = "done"
    /\ UNCHANGED <<c_text, c_max_tokens, c_overlap>>
    /\ UNCHANGED <<batchVars, mergeVars, checkerVars, textVars, providerVars>>
    /\ UNCHANGED <<subsVars, fileVars, cliVars, tokenVars, assVars, guiVars>>

NextChunk == ChunkCall

SpecChunk == InitChunk /\ [][NextChunk]_vars

\* ------------------------------------- merge_corrected_chunks, as one call
\* corrected chunks of one, two, three and five words
MergeTexts ==
    {<<"a">>, <<"a", " ", "b">>, <<" ", "a", "\n", "b", " ", " ", "c">>,
     <<"a", " ", "b", " ", "c", " ", "a", " ", "b">>}

\* (start, end) pairs as correct_text builds them
BoundaryPairs == {<<0, 1>>, <<1, 4>>}

InitMerge ==
    /\ m_original_text \in {<<>>, <<"a", " ", "b">>}
    /\ m_corrected_chunks \in UNION {[1..n -> MergeTexts] : n \in 0..MaxChunks}
    /\ m_chunk_boundaries \in UNION {[1..n -> BoundaryPairs] : n \in 0..MaxChunks}
    /\ m_result = <<>>
    /\ m_pc = "call"
    /\ BatchIdle /\ ChunkIdle /\ CheckerIdle /\ TextIdle /\ ProviderIdle
    /\ SubsIdle /\ FileIdle /\ CliIdle /\ TokenIdle /\ AssIdle /\ GuiIdle

MergeCall ==
    /\ m_pc = "call"
    /\ m_result' = merge_corrected_chunks(m_original_text, m_corrected_chunks,
                                          m_chunk_boundaries)
    /\ m_pc' = "done"
    /\ UNCHANGED <<m_original_text, m_corrected_chunks, m_chunk_boundaries>>
    /\ UNCHANGED <<batchVars, chunkVars, checkerVars, textVars, providerVars>>
    /\ UNCHANGED <<subsVars, fileVars, cliVars, tokenVars, assVars, guiVars>>

NextMerge == MergeCall

SpecMerge == InitMerge /\ [][NextMerge]_vars

\* --------------------------------------------- SpellChecker.correct_text
\* what the provider may answer to `input`: the input unchanged, a one-word
\* rewrite, or two rewritten parts around either separator of the callers
ProviderOutputs(input) ==
    {input,
     <<"b">>,
     <<"b">> \o separator_str \o <<"c">>,
     <<"b", " ">> \o SUBTITLE_SEPARATOR \o <<" ", "c">>}

\* the exceptions a provider call may end with
ProviderErrors == {"ResourceExhausted", "DeadlineExceeded"}

\* provider.correct_text is entered with `input`
ProviderEnter(input) ==
    /\ calls' = Append(calls, input)
    /\ in_flight' = in_flight + 1
    /\ UNCHANGED <<responses, provider_error>>

\* provider.correct_text returns `r`
ProviderLeave(r) ==
    /\ responses' = Append(responses, r)
    /\ in_flight' = in_flight - 1
    /\ UNCHANGED <<calls, provider_error>>

\* provider.correct_text raises `e`
ProviderRaise(e) ==
    /\ provider_error' = e
    /\ in_flight' = in_flight - 1
    /\ UNCHANGED <<calls, responses>>

\* the (pos, pos + len) pairs correct_text builds for the merger
RECURSIVE BoundariesFrom(_, _, _, _)
BoundariesFrom(chs, k, pos, overlap) ==
    IF k > Len(chs) THEN <<>>
    ELSE <<(<<pos, pos + Len(chs[k])>>)>>
            \o BoundariesFrom(chs, k + 1, pos + Len(chs[k]) - overlap, overlap)

ChunkBoundaries(chs, overlap) == BoundariesFrom(chs, 1, 0, overlap)

\* the texts correct_text is called with
CorrectTexts == UNION {[1..n -> TextAlphabet] : n \in 0..MaxCorrectLen}

InitText ==
    /\ text \in CorrectTexts
    /\ max_tokens_per_chunk \in (-1)..MaxChunkBudget
    /\ chunk_overlap \in 0..MaxOverlap
    /\ chunks = <<>>
    /\ corrected_chunks = <<>>
    /\ ct_result = <<>>
    /\ ct_raised = "none"
    /\ ct_pc = "start"
    /\ BatchIdle /\ ChunkIdle /\ MergeIdle /\ ProviderIdle
    /\ SubsIdle /\ FileIdle /\ CliIdle /\ TokenIdle /\ AssIdle /\ GuiIdle

\* the call of `return self.provider.correct_text(text)` for a text within the
\* limit
CT_ShortCall ==
    /\ ct_pc = "start"
    /\ count_tokens(text) <= max_tokens_per_chunk
    /\ ProviderEnter(text)
    /\ ct_pc' = "short_wait"
    /\ UNCHANGED <<text, chunks, corrected_chunks, ct_result, ct_raised>>

\* mutant: the short path returns its argument, not the provider's answer
CT_ShortReturnsInput ==
    /\ ct_pc = "short_wait"
    /\ \E r \in ProviderOutputs(text) :
          /\ ProviderLeave(r)
          /\ ct_result' = text
    /\ ct_pc' = "done"
    /\ UNCHANGED <<text, chunks, corrected_chunks, ct_raised>>

\* the provider's answer is returned as it is
CT_ShortReturn ==
    /\ ct_pc = "short_wait"
    /\ \E r \in ProviderOutputs(text) :
          /\ ProviderLeave(r)
          /\ ct_result' = r
    /\ ct_pc' = "done"
    /\ UNCHANGED <<text, chunks, corrected_chunks, ct_raised>>

\* `chunks = chunk_text(...)` for a text over the limit
CT_Chunk ==
    /\ ct_pc = "start"
    /\ count_tokens(text) > max_tokens_per_chunk
    /\ chunks' = chunk_text(text, max_tokens_per_chunk, chunk_overlap)
    /\ corrected_chunks' = <<>>
    /\ ct_pc' = "loop"
    /\ UNCHANGED <<text, ct_result, ct_raised, providerVars>>

\* mutant: the next chunk is sent while the call before it is still running
CT_ChunkCallEager ==
    /\ ct_pc \in {"loop", "chunk_wait"}
    /\ Len(corrected_chunks) + in_flight < Len(chunks)
    /\ ProviderEnter(chunks[Len(corrected_chunks) + in_flight + 1])
    /\ ct_pc' = "chunk_wait"
    /\ UNCHANGED <<text, chunks, corrected_chunks, ct_result, ct_raised>>

\* one iteration of `for chunk in chunks`: the provider is called with the chunk
CT_ChunkCall ==
    /\ ct_pc = "loop"
    /\ Len(corrected_chunks) < Len(chunks)
    /\ ProviderEnter(chunks[Len(corrected_chunks) + 1])
    /\ ct_pc' = "chunk_wait"
    /\ UNCHANGED <<text, chunks, corrected_chunks, ct_result, ct_raised>>

\* mutant: a failed call is caught and the chunk is kept as it was sent
CT_ChunkReturnCatches ==
    /\ ct_pc = "chunk_wait"
    /\ \/ \E r \in ProviderOutputs(chunks[Len(corrected_chunks) + 1]) :
             /\ ProviderLeave(r)
             /\ corrected_chunks' = Append(corrected_chunks, r)
       \/ \E e \in ProviderErrors :
             /\ ProviderRaise(e)
             /\ corrected_chunks' =
                   Append(corrected_chunks, chunks[Len(corrected_chunks) + 1])
    /\ ct_pc' = "loop"
    /\ UNCHANGED <<text, chunks, ct_result, ct_raised>>

\* ... and its answer is appended to corrected_chunks
CT_ChunkReturn ==
    /\ ct_pc = "chunk_wait"
    /\ \E r \in ProviderOutputs(chunks[Len(corrected_chunks) + 1]) :
          /\ ProviderLeave(r)
          /\ corrected_chunks' = Append(corrected_chunks, r)
    /\ ct_pc' = "loop"
    /\ UNCHANGED <<text, chunks, ct_result, ct_raised>>

\* the provider raises: correct_text has no handler, the exception leaves it
CT_Raise ==
    /\ ct_pc \in {"short_wait", "chunk_wait"}
    /\ \E e \in ProviderErrors :
          /\ ProviderRaise(e)
          /\ ct_raised' = e
    /\ ct_pc' = "raised"
    /\ UNCHANGED <<text, chunks, corrected_chunks, ct_result>>

\* mutant: the merger is handed the chunks as sent, not as corrected
CT_MergeUncorrected ==
    /\ ct_pc = "loop"
    /\ Len(corrected_chunks) = Len(chunks)
    /\ ct_result' = merge_corrected_chunks(text, chunks,
                                           ChunkBoundaries(chunks, chunk_overlap))
    /\ ct_pc' = "done"
    /\ UNCHANGED <<text, chunks, corrected_chunks, ct_raised, providerVars>>

\* the boundaries loop and `return merge_corrected_chunks(...)`
CT_Merge ==
    /\ ct_pc = "loop"
    /\ Len(corrected_chunks) = Len(chunks)
    /\ ct_result' = merge_corrected_chunks(text, corrected_chunks,
                                           ChunkBoundaries(chunks, chunk_overlap))
    /\ ct_pc' = "done"
    /\ UNCHANGED <<text, chunks, corrected_chunks, ct_raised, providerVars>>

\* what a step of correct_text leaves alone
TextFrame ==
    UNCHANGED <<batchVars, chunkVars, mergeVars, checkerVars, subsVars, fileVars, cliVars, tokenVars, assVars, guiVars>>

NextText ==
    \/ CT_ShortCall /\ TextFrame
    \/ CT_ShortReturn /\ TextFrame
    \/ CT_Chunk /\ TextFrame
    \/ CT_ChunkCall /\ TextFrame
    \/ CT_ChunkReturn /\ TextFrame
    \/ CT_Raise /\ TextFrame
    \/ CT_Merge /\ TextFrame

SpecText == InitText /\ [][NextText]_vars

\* ------------------------------------------ SpellChecker.correct_subtitles
\* seq[i : min(i + batch_size, total)] for i in range(0, total, batch_size),
\* for a positive batch_size
FixedBatches(seq, batch_size) ==
    LET total == Len(seq)
        count == (total + batch_size - 1) \div batch_size IN
    [k \in 1..count |->
        SubSeq(seq, (k - 1) * batch_size + 1, Min(k * batch_size, total))]

\* [{"text": subtitle} for subtitle in subtitles]
TextItems(texts) == [i \in 1..Len(texts) |-> [text |-> texts[i]]]

\* [[subtitle["text"] for subtitle in batch] for batch in batches]
BatchTexts(bs) == [k \in 1..Len(bs) |-> [j \in 1..Len(bs[k]) |-> bs[k][j].text]]

\* texts of one, three (with an ASS line break) and eleven tokens; the last
\* has two sentences
SubTexts ==
    {<<"a">>, <<"a", "\\", "N", "b">>,
     <<"a", "!", "!", "!", "!", ".", " ", "b", "!", "!", "!", "!">>}

SubTextSeqs == UNION {[1..n -> SubTexts] : n \in 0..MaxSubs}

InitSubs ==
    /\ subtitles \in SubTextSeqs
    /\ cs_batch_size \in 0..MaxBatchSize
    /\ max_tokens_per_chunk \in MinSubBudget..MaxSubBudget
    /\ chunk_overlap \in {0, MaxOverlap}
    /\ cs_batches = <<>>
    /\ cs_next = 1
    /\ corrected_subtitles = <<>>
    /\ cs_raised = "none"
    /\ cs_pc = "start"
    /\ BatchIdle /\ ChunkIdle /\ MergeIdle /\ TextIdle /\ ProviderIdle /\ FileIdle
    /\ CliIdle /\ TokenIdle /\ AssIdle /\ GuiIdle

\* the batching at the head of correct_subtitles: batch_items called with the
\* items, the limit, "text" and separator_str, or fixed-size slices
CS_Batch ==
    /\ cs_pc = "start"
    /\ IF cs_batch_size = 0
       THEN LET r == batch_items_call(<<TextItems(subtitles), max_tokens_per_chunk,
                                        "text", separator_str>>) IN
            IF r.raised # "none"
            THEN /\ cs_raised' = r.raised
                 /\ cs_pc' = "raised"
                 /\ UNCHANGED cs_batches
            ELSE /\ cs_batches' = BatchTexts(r.value)
                 /\ cs_pc' = "loop"
                 /\ UNCHANGED cs_raised
       ELSE /\ cs_batches' = FixedBatches(subtitles, cs_batch_size)
            /\ cs_pc' = "loop"
            /\ UNCHANGED cs_raised
    /\ UNCHANGED <<subtitles, cs_batch_size, cs_next, corrected_subtitles>>
    /\ UNCHANGED providerVars

\* the truncation repair: a response that ends with separator_str[:-1] or
\* separator_str[:-2] gets a line break appended
RepairTruncated(corrected_combined) ==
    IF \/ EndsWith(corrected_combined, TakeFirst(separator_str, Len(separator_str) - 1))
       \/ EndsWith(corrected_combined, TakeFirst(separator_str, Len(separator_str) - 2))
    THEN corrected_combined \o <<"\n">>
    ELSE corrected_combined

\* the head of one iteration of `for batch in batches`: an empty batch is
\* skipped, any other is joined and the provider is called with the joined text
CS_Send ==
    /\ cs_pc = "loop"
    /\ cs_next <= Len(cs_batches)
    /\ LET batch == cs_batches[cs_next] IN
       IF batch = <<>>
       THEN /\ cs_next' = cs_next + 1
            /\ UNCHANGED <<cs_pc, providerVars>>
       ELSE /\ ProviderEnter(JoinWith(batch, separator_str))
            /\ cs_pc' = "wait"
            /\ UNCHANGED cs_next
    /\ UNCHANGED <<subtitles, cs_batch_size, cs_batches, corrected_subtitles, cs_raised>>

\* answers cut off inside a separator: a rewrite followed by a non-empty proper
\* prefix of separator_str
TruncatedOutputs ==
    {<<"b">> \o TakeFirst(separator_str, n) : n \in 1..(Len(separator_str) - 1)}

\* the tail of the iteration: the repair, the split, and the extend
CS_Receive ==
    /\ cs_pc = "wait"
    /\ \E r \in ProviderOutputs(calls[Len(calls)]) \cup TruncatedOutputs :
          /\ ProviderLeave(r)
          /\ corrected_subtitles' =
                corrected_subtitles \o SplitOn(RepairTruncated(r), separator_str)
    /\ cs_next' = cs_next + 1
    /\ cs_pc' = "loop"
    /\ UNCHANGED <<subtitles, cs_batch_size, cs_batches, cs_raised>>

\* the provider raises: correct_subtitles has no handler, the exception leaves it
CS_Raise ==
    /\ cs_pc = "wait"
    /\ \E e \in ProviderErrors :
          /\ ProviderRaise(e)
          /\ cs_raised' = e
    /\ cs_pc' = "raised"
    /\ UNCHANGED <<subtitles, cs_batch_size, cs_batches, cs_next, corrected_subtitles>>

\* `return corrected_subtitles`
CS_Return ==
    /\ cs_pc = "loop"
    /\ cs_next > Len(cs_batches)
    /\ cs_pc' = "done"
    /\ UNCHANGED <<subtitles, cs_batch_size, cs_batches, cs_next, corrected_subtitles,
                   cs_raised>>
    /\ UNCHANGED providerVars

\* what a step of correct_subtitles leaves alone
SubsFrame == UNCHANGED <<batchVars, chunkVars, mergeVars, checkerVars, textVars, fileVars, cliVars, tokenVars, assVars, guiVars>>

\* -------------------------------------- SpellChecker.correct_subtitle_file
\* the items parse_subtitle_file returns for a file of one format
FileItems(texts, format) ==
    [i \in 1..Len(texts) |->
        IF format = "srt"
        THEN [index |-> i, start_time |-> 2 * i - 1, end_time |-> 2 * i,
              text |-> texts[i], format |-> "srt"]
        ELSE [index |-> i, start_time |-> 2 * i - 1, end_time |-> 2 * i,
              text |-> texts[i], raw_text |-> texts[i], format |-> "ass",
              line |-> [text |-> texts[i]], meta |-> "meta", parent_file |-> "subs"]]

\* the path of the file that is read
filepath == "in"

\* `for item in subtitle_data: item["original_filepath"] = filepath`
WithFilepath(data) ==
    [p \in 1..Len(data) |-> ("original_filepath" :> filepath) @@ data[p]]

\* the texts of the items at the positions `batch`, joined by the separator
JoinedTexts(data, batch) ==
    JoinWith([j \in 1..Len(batch) |-> data[batch[j]].text], SUBTITLE_SEPARATOR)

\* `while batch:` of the fixed-size branch: the last item is removed until the
\* joined text fits or one item is left
RECURSIVE ShrinkToFit(_, _, _)
ShrinkToFit(data, batch, limit) ==
    IF count_tokens(JoinedTexts(data, batch)) <= limit \/ Len(batch) = 1
    THEN batch
    ELSE ShrinkToFit(data, TakeFirst(batch, Len(batch) - 1), limit)

\* the batches as positions in subtitle_data (the batches hold the very dicts
\* of subtitle_data, whose index is their position)
BatchPositions(bs) == [k \in 1..Len(bs) |-> [j \in 1..Len(bs[k]) |-> bs[k][j].index]]

InitFile ==
    /\ \E texts \in SubTextSeqs, format \in {"srt", "ass"} :
          /\ parsed = FileItems(texts, format)
          /\ subtitle_data = FileItems(texts, format)
    /\ stderr = <<>>
    /\ exit_code = 0
    /\ cli_pc = "running"
    /\ f_batch_size \in 0..MaxBatchSize
    /\ max_tokens_per_chunk \in MinSubBudget..MaxSubBudget
    /\ chunk_overlap \in {0, MaxOverlap}
    /\ f_batches = <<>>
    /\ f_next = 1
    /\ written = <<>>
    /\ f_raised = "none"
    /\ f_pc = "start"
    /\ BatchIdle /\ ChunkIdle /\ MergeIdle /\ TextIdle /\ ProviderIdle /\ SubsIdle
    /\ TokenIdle /\ AssIdle /\ GuiIdle

\* the head of correct_subtitle_file: the file path is stored in every item
\* and the items are batched
F_Batch ==
    /\ f_pc = "start"
    /\ LET data == WithFilepath(subtitle_data) IN
          /\ subtitle_data' = data
          /\ f_batches' =
                IF f_batch_size = 0
                THEN BatchPositions(
                        batch_items_call(<<data, max_tokens_per_chunk>>).value)
                ELSE LET slices == FixedBatches([i \in 1..Len(data) |-> i],
                                                f_batch_size) IN
                     [k \in 1..Len(slices) |->
                         ShrinkToFit(data, slices[k], max_tokens_per_chunk)]
    /\ f_pc' = "loop"
    /\ UNCHANGED <<parsed, f_batch_size, f_next, written, f_raised>>
    /\ UNCHANGED <<textVars, providerVars>>

\* item["text"].replace("\\N", "§LINEBREAK§") for the ASS items of the batch
WithPlaceholders(data, batch) ==
    [p \in 1..Len(data) |->
        IF (\E j \in 1..Len(batch) : batch[j] = p) /\ data[p].format = "ass"
        THEN [data[p] EXCEPT !.text = ReplaceAll(@, ASS_LINE_BREAK, LINEBREAK_PLACEHOLDER)]
        ELSE data[p]]

\* the head of one iteration of `for batch in batches`: the placeholders, the
\* join, and the call of self.correct_text on the joined text
F_Send ==
    /\ f_pc = "loop"
    /\ ct_pc = "idle"
    /\ f_next <= Len(f_batches)
    /\ LET data == WithPlaceholders(subtitle_data, f_batches[f_next]) IN
          /\ subtitle_data' = data
          /\ text' = JoinedTexts(data, f_batches[f_next])
    /\ chunks' = <<>>
    /\ corrected_chunks' = <<>>
    /\ ct_result' = <<>>
    /\ ct_pc' = "start"
    /\ UNCHANGED <<parsed, f_batch_size, f_batches, f_next, written, f_raised, f_pc>>
    /\ UNCHANGED <<ct_raised, providerVars>>

\* self.correct_text raises: correct_subtitle_file has no handler, the
\* exception leaves it as it left correct_text
F_Propagate ==
    /\ f_pc = "loop"
    /\ f_raised' = ct_raised'
    /\ f_pc' = "raised"
    /\ UNCHANGED <<parsed, subtitle_data, f_batch_size, f_batches, f_next, written>>

\* the text item p gets from the parts of the split response
AppliedText(item, part) ==
    IF item.format = "ass"
    THEN ReplaceAll(Strip(part), LINEBREAK_PLACEHOLDER, ASS_LINE_BREAK)
    ELSE Strip(part)

\* mutant: part j goes to the j-th item of the file, not of the batch
F_ApplyByFilePosition ==
    /\ f_pc = "loop"
    /\ ct_pc = "done"
    /\ LET batch == f_batches[f_next]
           corrected_texts == SplitOn(ct_result, SUBTITLE_SEPARATOR) IN
       subtitle_data' =
          [p \in 1..Len(subtitle_data) |->
              IF p <= Min(Len(batch), Len(corrected_texts))
              THEN [subtitle_data[p] EXCEPT
                       !.text = AppliedText(subtitle_data[p], corrected_texts[p])]
              ELSE subtitle_data[p]]
    /\ f_next' = f_next + 1
    /\ ct_pc' = "idle"
    /\ UNCHANGED <<parsed, f_batch_size, f_batches, written, f_raised, f_pc>>
    /\ UNCHANGED <<text, chunks, corrected_chunks, ct_result, ct_raised, providerVars>>

\* mutant: an updated item is built anew from its text and format
F_ApplyRebuildsItem ==
    /\ f_pc = "loop"
    /\ ct_pc = "done"
    /\ LET batch == f_batches[f_next]
           corrected_texts == SplitOn(ct_result, SUBTITLE_SEPARATOR) IN
       subtitle_data' =
          [p \in 1..Len(subtitle_data) |->
              IF \E j \in 1..Min(Len(batch), Len(corrected_texts)) : batch[j] = p
              THEN LET j == CHOOSE j \in 1..Min(Len(batch), Len(corrected_texts)) :
                                batch[j] = p IN
                   [text |-> AppliedText(subtitle_data[p], corrected_texts[j]),
                    format |-> subtitle_data[p].format]
              ELSE subtitle_data[p]]
    /\ f_next' = f_next + 1
    /\ ct_pc' = "idle"
    /\ UNCHANGED <<parsed, f_batch_size, f_batches, written, f_raised, f_pc>>
    /\ UNCHANGED <<text, chunks, corrected_chunks, ct_result, ct_raised, providerVars>>

\* the tail of the iteration: the split of what correct_text returned and the
\* update of the batch's items by position in the batch
F_Apply ==
    /\ f_pc = "loop"
    /\ ct_pc = "done"
    /\ LET batch == f_batches[f_next]
           corrected_texts == SplitOn(ct_result, SUBTITLE_SEPARATOR) IN
       subtitle_data' =
          [p \in 1..Len(subtitle_data) |->
              IF \E j \in 1..Min(Len(batch), Len(corrected_texts)) : batch[j] = p
              THEN LET j == CHOOSE j \in 1..Min(Len(batch), Len(corrected_texts)) :
                                batch[j] = p IN
                   [subtitle_data[p] EXCEPT
                       !.text = AppliedText(subtitle_data[p], corrected_texts[j])]
              ELSE subtitle_data[p]]
    /\ f_next' = f_next + 1
    /\ ct_pc' = "idle"
    /\ UNCHANGED <<parsed, f_batch_size, f_batches, written, f_raised, f_pc>>
    /\ UNCHANGED <<text, chunks, corrected_chunks, ct_result, ct_raised, providerVars>>

\* write_subtitle_file(subtitle_data, output_filepath) after the last batch
F_Write ==
    /\ f_pc = "loop"
    /\ ct_pc = "idle"
    /\ f_next > Len(f_batches)
    /\ IF subtitle_data = <<>>
       THEN /\ f_raised' = "No subtitles to write"
            /\ f_pc' = "raised"
            /\ UNCHANGED written
       ELSE /\ written' = subtitle_data
            /\ f_pc' = "done"
            /\ UNCHANGED f_raised
    /\ UNCHANGED <<parsed, subtitle_data, f_batch_size, f_batches, f_next>>
    /\ UNCHANGED <<textVars, providerVars>>

\* ------------------------------------------------------------- cli.main
\* the `file` command: correct_subtitle_file returned, the path is printed
CLI_Return ==
    /\ cli_pc = "running"
    /\ f_pc = "done"
    /\ exit_code' = 0
    /\ cli_pc' = "exited"
    /\ UNCHANGED stderr

\* mutant: the handler reports a message of its own
CLI_ErrorOwnMessage ==
    /\ cli_pc = "running"
    /\ f_pc = "raised"
    /\ stderr' = <<"Error: ", "correction failed">>
    /\ exit_code' = 1
    /\ cli_pc' = "exited"

\* `except Exception as e`: the message goes to stderr, the exit code is 1
CLI_Error ==
    /\ cli_pc = "running"
    /\ f_pc = "raised"
    /\ stderr' = <<"Error: ", f_raised>>
    /\ exit_code' = 1
    /\ cli_pc' = "exited"

\* what a step of correct_subtitle_file leaves alone
FileFrame == UNCHANGED <<batchVars, chunkVars, mergeVars, checkerVars, subsVars, cliVars, tokenVars, assVars, guiVars>>

\* correct_text while correct_subtitle_file is waiting for it
NestedTextFrame ==
    UNCHANGED <<batchVars, chunkVars, mergeVars, checkerVars, subsVars, fileVars, cliVars, tokenVars, assVars, guiVars>>

\* what a step of cli.main leaves alone
CliFrame ==
    UNCHANGED <<batchVars, chunkVars, mergeVars, checkerVars, textVars, providerVars,
                subsVars, fileVars, tokenVars, assVars, guiVars>>

NextSubtitles ==
    \/ CS_Batch /\ SubsFrame
    \/ CS_Send /\ SubsFrame
    \/ CS_Receive /\ SubsFrame
    \/ CS_Raise /\ SubsFrame
    \/ CS_Return /\ SubsFrame
    \/ F_Batch /\ FileFrame
    \/ F_Send /\ FileFrame
    \/ CT_ShortCall /\ NestedTextFrame
    \/ CT_ShortReturn /\ NestedTextFrame
    \/ CT_Chunk /\ NestedTextFrame
    \/ CT_ChunkCall /\ NestedTextFrame
    \/ CT_ChunkReturn /\ NestedTextFrame
    \/ CT_Raise /\ F_Propagate /\ FileFrame
    \/ CT_Merge /\ NestedTextFrame
    \/ F_Apply /\ FileFrame
    \/ F_Write /\ FileFrame
    \/ CLI_Return /\ CliFrame
    \/ CLI_Error /\ CliFrame

SpecSubtitles == (InitSubs \/ InitFile) /\ [][NextSubtitles]_vars

\* ------------------------------------------------------------ count_tokens
\* the texts over two word characters, two punctuation characters, a blank and
\* a line break
TokenAlphabet == {"a", "_", ".", "§", " ", "\n"}

TokenTexts == UNION {[1..n -> TokenAlphabet] : n \in 0..MaxTokenTextLen}

InitTokens ==
    /\ t_text \in TokenTexts
    /\ t_counts = <<>>
    /\ BatchIdle /\ ChunkIdle /\ MergeIdle /\ CheckerIdle /\ TextIdle /\ ProviderIdle
    /\ SubsIdle /\ FileIdle /\ CliIdle /\ AssIdle /\ GuiIdle

\* one call count_tokens(text)
TokenCall ==
    /\ Len(t_counts) < MaxTokenCalls
    /\ t_counts' = Append(t_counts, count_tokens(t_text))
    /\ UNCHANGED t_text
    /\ UNCHANGED <<batchVars, chunkVars, mergeVars, checkerVars, textVars, providerVars>>
    /\ UNCHANGED <<subsVars, fileVars, cliVars, assVars, guiVars>>

NextTokens == TokenCall

SpecTokens == InitTokens /\ [][NextTokens]_vars

\* ------------------------------------------------------- claims: batch_items
Oversized(j) == count_tokens(items[j].text) >= max_tokens

\* C1: for a non-empty item sequence the batches batch_items returns, flattened
\* in order, are exactly the input sequence: each item is in exactly one batch
\* and the order is kept within and across batches.
C1_FlattenIsInput ==
    (b_pc = "done" /\ items # <<>>) => Flatten(batches) = items

C1_Witness ==
    /\ b_pc = "done"
    /\ Len(batches) >= 2
    /\ \E k \in 1..Len(batches) : Len(batches[k]) >= 2
    /\ \E j \in 1..Len(items) : Oversized(j)

\* C2: an item whose estimate is >= max_tokens is alone in a singleton batch;
\* the batch before it ends with the item that preceded it (the open batch was
\* flushed first) and the batch after it starts with the item that follows it.
C2_OversizedAlone ==
    b_pc = "done" =>
        \A j \in 1..Len(items) :
            Oversized(j) =>
                \E k \in 1..Len(batches) :
                    /\ batches[k] = <<items[j]>>
                    /\ j > 1 => /\ k > 1
                                /\ batches[k - 1] # <<>>
                                /\ batches[k - 1][Len(batches[k - 1])] = items[j - 1]
                    /\ j < Len(items) => /\ k < Len(batches)
                                         /\ batches[k + 1] # <<>>
                                         /\ batches[k + 1][1] = items[j + 1]

C2_Witness ==
    /\ b_pc = "done"
    /\ \E j \in 2..(Len(items) - 1) :
           /\ Oversized(j)
           /\ ~Oversized(j - 1)
           /\ ~Oversized(j + 1)
           /\ \E k \in 1..Len(batches) : batches[k] = <<items[j]>>

\* C3: no returned batch is empty, and a batch of two or more items has a
\* combined estimate (items plus one separator per adjacent pair) that does not
\* exceed max_tokens; only a single-item batch may exceed it.
C3_BatchWithinBudget ==
    b_pc = "done" =>
        \A k \in 1..Len(batches) :
            /\ batches[k] # <<>>
            /\ CombinedEstimate(batches[k]) > max_tokens => Len(batches[k]) = 1

C3_Witness ==
    /\ b_pc = "done"
    /\ \E k \in 1..Len(batches) :
           Len(batches[k]) >= 2 /\ CombinedEstimate(batches[k]) = max_tokens
    /\ \E k \in 1..Len(batches) :
           Len(batches[k]) = 1 /\ CombinedEstimate(batches[k]) > max_tokens

\* ------------------------------------------- claims: chunk_text and merger
\* C5: a text whose estimate is within max_tokens comes back from chunk_text
\* as the one-element list [text], whatever the overlap.
C5_WithinLimitSingleChunk ==
    (c_pc = "done" /\ count_tokens(c_text) <= c_max_tokens) => c_chunks = <<c_text>>

C5_Witness ==
    /\ c_pc = "done"
    /\ count_tokens(c_text) = c_max_tokens
    /\ c_overlap > 0
    /\ Len(SplitOn(c_text, <<"\n", "\n">>)) > 1
    /\ c_chunks = <<c_text>>

\* C6: with max_tokens <= 0 or an empty text chunk_text returns [text] unsplit,
\* for every text and every overlap.
C6_DegenerateUnsplit ==
    (c_pc = "done" /\ (c_max_tokens <= 0 \/ c_text = <<>>)) => c_chunks = <<c_text>>

\* C7: merge_corrected_chunks given exactly one corrected chunk returns that
\* chunk unchanged, for every original text and every boundary list.
C7_SingleChunkRoundTrip ==
    (m_pc = "done" /\ Len(m_corrected_chunks) = 1) => m_result = m_corrected_chunks[1]

C7_Witness ==
    /\ m_pc = "done"
    /\ Len(m_corrected_chunks) = 1
    /\ Len(SplitWords(m_corrected_chunks[1])) >= 2
    /\ m_chunk_boundaries = <<>>
    /\ m_result = m_corrected_chunks[1]

\* ------------------------------------------------- claims: correct_text
OverBudget == count_tokens(text) > max_tokens_per_chunk

\* C4: for a text over a (positive) budget and a provider that returns every
\* chunk unchanged, the text correct_text returns has the whitespace-delimited
\* tokens of the original, as often and in the same order.
C4_ChunkMergeKeepsTokens ==
    (ct_pc = "done" /\ OverBudget /\ max_tokens_per_chunk > 0 /\ responses = calls)
        => SplitWords(ct_result) = SplitWords(text)

\* C8: for a text within the budget correct_text calls the provider exactly
\* once, with the whole text, and returns the provider's answer unchanged.
C8_ShortTextOneCall ==
    (ct_pc = "done" /\ ~OverBudget)
        => /\ calls = <<text>>
           /\ Len(responses) = 1
           /\ ct_result = responses[1]

C8_Witness ==
    /\ ct_pc = "done"
    /\ ~OverBudget
    /\ text # <<>>
    /\ calls = <<text>>
    /\ ct_result # text

\* C9: for a text over the budget correct_text calls the provider once per
\* chunk of chunk_text, in chunk order, and returns merge_corrected_chunks over
\* all the provider's answers in that order.
C9_OneCallPerChunkThenMerge ==
    (ct_pc = "done" /\ OverBudget)
        => /\ calls = chunk_text(text, max_tokens_per_chunk, chunk_overlap)
           /\ Len(responses) = Len(calls)
           /\ ct_result =
                 merge_corrected_chunks(text, responses,
                                        ChunkBoundaries(calls, chunk_overlap))

C9_Witness ==
    /\ ct_pc = "done"
    /\ OverBudget
    /\ Len(calls) >= 2
    /\ calls[1] # calls[2]
    /\ responses # calls
    /\ responses[1] # responses[2]

\* ------------------------------------------ claims: subtitle correction
\* the joined texts the provider is to be called with, one per batch
RECURSIVE JoinedBatches(_, _)
JoinedBatches(bs, sep) ==
    IF bs = <<>> THEN <<>>
    ELSE <<JoinWith(Head(bs), sep)>> \o JoinedBatches(Tail(bs), sep)

\* the item texts as they are when their batch is sent (ASS line breaks as
\* placeholders)
SentTexts(data) ==
    [p \in 1..Len(data) |->
        [text |-> IF data[p].format = "ass"
                  THEN ReplaceAll(data[p].text, ASS_LINE_BREAK, LINEBREAK_PLACEHOLDER)
                  ELSE data[p].text]]

\* the batch_items batches of `its`, with the texts of `sent` in their places
BatchesOfSent(its, sent, limit) ==
    LET bs == batch_items(its, limit) IN
    [k \in 1..Len(bs) |-> [j \in 1..Len(bs[k]) |-> sent[bs[k][j].index].text]]

\* C10: with batch_size = 0 correct_subtitles and correct_subtitle_file end
\* having called the provider exactly once per batch of batch_items, in batch
\* order, each time with the batch's item texts joined by the separator.
C10_OneCallPerTokenBatch ==
    /\ (cs_pc \in {"done", "raised"} /\ cs_batch_size = 0 /\ subtitles # <<>>)
          => /\ cs_pc = "done"
             /\ calls = JoinedBatches(
                           BatchTexts(batch_items(TextItems(subtitles),
                                                  max_tokens_per_chunk)),
                           separator_str)
    /\ (f_pc = "done" /\ f_batch_size = 0)
          => calls = JoinedBatches(
                        BatchesOfSent(parsed, SentTexts(parsed), max_tokens_per_chunk),
                        SUBTITLE_SEPARATOR)

\* the position in `subtitles` before the first item of batch k of a fixed-size
\* split
FirstOfBatch(k) == (k - 1) * cs_batch_size

\* C11: for every batch of n items that is sent, a response with exactly n - 1
\* separators is split into n parts and part j becomes the corrected text of the
\* batch's j-th item: in correct_subtitles the text returned at that item's
\* position, in correct_subtitle_file the item's text (stripped, line-break
\* placeholders restored).
C11_PartsByPosition ==
    /\ cs_pc = "done"
          => \A k \in 1..Len(cs_batches) :
                LET batch == cs_batches[k]
                    parts == SplitOn(responses[k], separator_str) IN
                Len(parts) = Len(batch)
                   => \A j \in 1..Len(batch) :
                         /\ FirstOfBatch(k) + j <= Len(corrected_subtitles)
                         /\ corrected_subtitles[FirstOfBatch(k) + j] = parts[j]
    /\ (f_pc = "loop" /\ ct_pc = "idle" /\ f_next > 1)
          => LET batch == f_batches[f_next - 1]
                 parts == SplitOn(ct_result, SUBTITLE_SEPARATOR) IN
             Len(parts) = Len(batch)
                => \A j \in 1..Len(batch) :
                      subtitle_data[batch[j]].text =
                         AppliedText(subtitle_data[batch[j]], parts[j])

\* C12: in correct_subtitle_file a batch of n items whose corrected text splits
\* into k # n parts raises nothing: part j goes to item j for j < min(k, n),
\* the parts from n on are dropped, and every item from k on keeps exactly the
\* text that was read from the file.
C12_MismatchKeepsOriginal ==
    (f_pc = "loop" /\ ct_pc = "idle" /\ f_next > 1)
       => LET batch == f_batches[f_next - 1]
              parts == SplitOn(ct_result, SUBTITLE_SEPARATOR) IN
          Len(parts) # Len(batch)
             => \A j \in 1..Len(batch) :
                   subtitle_data[batch[j]].text =
                      IF j <= Len(parts)
                      THEN AppliedText(parsed[batch[j]], parts[j])
                      ELSE parsed[batch[j]].text

\* the text correct_subtitles is to return at position i: the part of the
\* response of the item's batch at the item's place, or the original text
ExpectedSubtitle(i) ==
    LET k == ((i - 1) \div cs_batch_size) + 1
        j == i - FirstOfBatch(k)
        parts == SplitOn(RepairTruncated(responses[k]), separator_str) IN
    IF j <= Len(parts) THEN parts[j] ELSE subtitles[i]

\* C13: correct_subtitles returns exactly one text per input subtitle, and the
\* text at position i is derived from item i: excess parts of a batch's response
\* are dropped, items without a part keep their original text, and a mismatch in
\* one batch shifts nothing in later batches.
C13_OneTextPerSubtitle ==
    cs_pc = "done"
       => /\ Len(corrected_subtitles) = Len(subtitles)
          /\ \A i \in 1..Len(subtitles) : corrected_subtitles[i] = ExpectedSubtitle(i)

\* C14: once the provider has raised, the enclosing correct_text,
\* correct_subtitles or correct_subtitle_file has ended with that same
\* exception: the failed call is the last call (no retry, no further call),
\* nothing is in flight, and no result is returned or written.
C14_CorrectorErrorEnds ==
    provider_error # "none"
       => /\ in_flight = 0
          /\ Len(calls) = Len(responses) + 1
          /\ cs_pc # "idle" => (cs_pc = "raised" /\ cs_raised = provider_error)
          /\ f_pc # "idle"
                => /\ ct_pc = "raised"
                   /\ ct_raised = provider_error
                   /\ ct_result = <<>>
                   /\ f_pc = "raised"
                   /\ f_raised = provider_error
                   /\ written = <<>>

C14_Witness ==
    /\ provider_error # "none"
    /\ f_pc = "raised"
    /\ f_raised = provider_error
    /\ Len(chunks) >= 2
    /\ Len(responses) >= 1

\* C15: when the provider fails on a batch of correct_subtitle_file no output
\* file is written, whatever earlier batches were corrected, and the CLI ends
\* with the provider's own message on stderr and exit code 1.
C15_FailureWritesNothing ==
    (provider_error # "none" /\ f_pc # "idle")
       => /\ written = <<>>
          /\ cli_pc = "exited"
                => /\ stderr = <<"Error: ", provider_error>>
                   /\ exit_code = 1

C15_Witness ==
    /\ provider_error # "none"
    /\ cli_pc = "exited"
    /\ exit_code = 1
    /\ f_next = 2
    /\ subtitle_data[1].text # parsed[1].text
    /\ written = <<>>

\* the fields of an item other than its text
OtherKeys(item) == DOMAIN item \ {"text"}

\* C16 as stated: the items handed to the writer are the parsed items in the
\* parsed order, each with the same set of keys and the same value under every
\* key but text.
C16_OnlyTextChanges ==
    f_pc = "done"
       => /\ Len(written) = Len(parsed)
          /\ \A p \in 1..Len(parsed) :
                /\ DOMAIN written[p] = DOMAIN parsed[p]
                /\ \A key \in OtherKeys(parsed[p]) : written[p][key] = parsed[p][key]

\* C16, amended: the items handed to the writer are the parsed items in the
\* parsed order; each has the keys it was parsed with and the added key
\* original_filepath holding the input path, and the same value as when parsed
\* under every parsed key but text.
C16_OnlyTextAndFilepath ==
    f_pc = "done"
       => /\ Len(written) = Len(parsed)
          /\ \A p \in 1..Len(parsed) :
                /\ DOMAIN written[p] = DOMAIN parsed[p] \cup {"original_filepath"}
                /\ written[p]["original_filepath"] = filepath
                /\ \A key \in OtherKeys(parsed[p]) : written[p][key] = parsed[p][key]

C16_Witness ==
    /\ f_pc = "done"
    /\ Len(written) = 2
    /\ written[1].format = "ass"
    /\ written[1].text # parsed[1].text
    /\ written[2].text # parsed[2].text
    /\ written[2].line = parsed[2].line

\* `bs` holds the elements of `seq` in consecutive groups of `size`, the last
\* group possibly shorter: element i is at place ((i - 1) % size) + 1 of group
\* ((i - 1) \div size) + 1, and no group holds anything else
ConsecutiveGroups(bs, seq, size) ==
    /\ \A i \in 1..Len(seq) :
          LET k == ((i - 1) \div size) + 1
              j == ((i - 1) % size) + 1 IN
          /\ k <= Len(bs)
          /\ j <= Len(bs[k])
          /\ bs[k][j] = seq[i]
    /\ \A k \in 1..Len(bs) : \A j \in 1..Len(bs[k]) : (k - 1) * size + j <= Len(seq)

\* C17: with batch_size > 0 both correct_subtitles and correct_subtitle_file
\* split the items into consecutive groups of batch_size, every item in exactly
\* one batch, and no item is taken out of its batch to fit the token budget.
C17_FixedGroupsKeepEveryItem ==
    /\ (cs_pc \in {"loop", "wait", "done"} /\ cs_batch_size > 0)
          => ConsecutiveGroups(cs_batches, subtitles, cs_batch_size)
    /\ (f_pc \in {"loop", "done"} /\ f_batch_size > 0)
          => ConsecutiveGroups(f_batches, [i \in 1..Len(parsed) |-> i], f_batch_size)

\* the provider calls that have ended, by a return or by the exception
EndedCalls == Len(responses) + (IF provider_error = "none" THEN 0 ELSE 1)

\* C18: within one invocation the provider calls never overlap: at most one call
\* is in flight, a call starts only when every call before it has ended, and the
\* calls are made in the order of the batches and of the chunks.
C18_CallsNeverOverlap ==
    /\ in_flight \in {0, 1}
    /\ Len(calls) = EndedCalls + in_flight
    /\ cs_pc # "idle"
          => \A k \in 1..Len(calls) : calls[k] = JoinWith(cs_batches[k], separator_str)
    /\ ct_pc \in {"short_wait", "chunk_wait"} => in_flight = 1
    /\ ct_pc = "short_wait" => calls[Len(calls)] = text
    /\ ct_pc \in {"loop", "chunk_wait"}
          => LET n == Len(corrected_chunks) + in_flight IN
             /\ n <= Len(calls)
             /\ n <= Len(chunks)
             /\ SubSeq(calls, Len(calls) - n + 1, Len(calls)) = SubSeq(chunks, 1, n)

C18_Witness ==
    /\ ct_pc = "chunk_wait"
    /\ in_flight = 1
    /\ Len(corrected_chunks) = 1
    /\ f_next = 2
    /\ Len(calls) >= 3

\* position p is one of the positions of `batch`
InBatch(p, batch) == \E j \in 1..Len(batch) : batch[j] = p

\* the handling of batch k has not begun
NotBegun(k) == k > f_next \/ (k = f_next /\ ct_pc = "idle")

\* C19: in correct_subtitle_file no two batches share an item, handling a batch
\* changes the items of that batch only, and the items of a batch whose handling
\* has not begun still have the text read from the file: nothing a batch reads
\* was written for another batch, so the final texts do not depend on the order
\* of the batches.
C19_BatchesIndependent ==
    /\ [](f_pc \in {"loop", "done"}
            => /\ \A k1, k2 \in 1..Len(f_batches) : \A p \in 1..Len(subtitle_data) :
                     (InBatch(p, f_batches[k1]) /\ InBatch(p, f_batches[k2])) => k1 = k2
               /\ \A k \in 1..Len(f_batches) : \A p \in 1..Len(subtitle_data) :
                     (NotBegun(k) /\ InBatch(p, f_batches[k]))
                        => subtitle_data[p].text = parsed[p].text)
    /\ [][f_pc = "loop"
            => \A p \in 1..Len(subtitle_data) :
                  subtitle_data'[p] # subtitle_data[p]
                     => /\ f_next <= Len(f_batches)
                        /\ InBatch(p, f_batches[f_next])]_vars

C19_Witness ==
    /\ f_pc = "done"
    /\ Len(f_batches) = 2
    /\ \A p \in 1..2 : written[p].text # parsed[p].text
    /\ written[1].text # written[2].text

\* ------------------------------------------------- claims: count_tokens
\* the maximal runs of word characters, counted by the positions where a word
\* character has no word character before it
WordRuns(txt) ==
    Cardinality({i \in 1..Len(txt) :
                    IsWord(txt[i]) /\ (i = 1 \/ ~IsWord(txt[i - 1]))})

\* the characters that are neither word characters nor whitespace
PunctuationCount(txt) ==
    Cardinality({i \in 1..Len(txt) : ~IsWord(txt[i]) /\ ~IsSpace(txt[i])})

\* C20: every call count_tokens(text) returns the same non-negative integer,
\* the number of maximal runs of word characters plus the number of characters
\* that are neither word characters nor whitespace; it is 0 for an empty text
\* and for a text of whitespace only.
C20_TokenEstimate ==
    \A k \in 1..Len(t_counts) :
       /\ t_counts[k] \in Nat
       /\ t_counts[k] = WordRuns(t_text) + PunctuationCount(t_text)
       /\ (\A i \in 1..Len(t_text) : IsSpace(t_text[i])) => t_counts[k] = 0

C20_Witness ==
    /\ Len(t_counts) = MaxTokenCalls
    /\ t_text = <<"a", "_", ".", " ">>
    /\ t_counts[1] = Len(t_text) - 2
    /\ t_counts[2] = t_counts[1]

\* ------------------------------------------------------------------- C21
\* the merge as the claim words it: the first chunk in full, then of every
\* later chunk the words left after dropping the first half, rounded down
RECURSIVE KeepHalfMerge(_, _, _)
KeepHalfMerge(result, cchunks, i) ==
    IF i > Len(cchunks) THEN result
    ELSE LET words == SplitWords(cchunks[i]) IN
         KeepHalfMerge(result \o <<" ">>
                          \o JoinWith(DropFirst(words, Len(words) \div 2), <<" ">>),
                       cchunks, i + 1)

\* C21: merging two or more corrected chunks (each with its boundary pair)
\* keeps the first chunk in full and appends, for every later chunk, a space
\* and the words left after its first half (rounded down) is discarded, so
\* that a later chunk of one word still contributes that word.
C21_LaterChunksKeepHalf ==
    (/\ m_pc = "done"
     /\ Len(m_corrected_chunks) >= 2
     /\ Len(m_chunk_boundaries) >= Len(m_corrected_chunks))
    => m_result = KeepHalfMerge(m_corrected_chunks[1], m_corrected_chunks, 2)

\* ------------------------------------------------------------------- C22
\* the overlap fragment as the claim words it: the last overlap_tokens words
\* of the chunk (all of them when it has fewer), joined by and followed by " "
TailWordsFragment(chunk, overlap_tokens) ==
    LET words == SplitWords(chunk)
        n == Min(overlap_tokens, Len(words)) IN
    JoinWith(SubSeq(words, Len(words) - n + 1, Len(words)), <<" ">>) \o <<" ">>

\* C22: when chunk_text has more than one base chunk and the overlap is
\* positive the first chunk is the first base chunk and every later chunk is
\* the last `overlap` words of the preceding base chunk (all its words when it
\* has fewer), joined by single spaces and followed by one space, then the
\* base chunk itself; with an overlap of 0 the base chunks come back unchanged.
C22_OverlapPrefixesTailWords ==
    LET base == BaseChunks(c_text, c_max_tokens) IN
    (c_pc = "done" /\ count_tokens(c_text) > c_max_tokens /\ c_max_tokens > 0)
    => /\ (Len(base) > 1 /\ c_overlap > 0)
            => c_chunks = [i \in 1..Len(base) |->
                              IF i = 1 THEN base[1]
                              ELSE TailWordsFragment(base[i - 1], c_overlap)
                                      \o base[i]]
       /\ c_overlap = 0 => c_chunks = base

\* ------------------------------------------------------------------- C23
Paragraphs(txt) == SplitOn(txt, <<"\n", "\n">>)

\* the chunk ends with a run of whole consecutive paragraphs, and is nothing
\* but that run when it carries no overlap fragment
ParagraphAligned(chunk, paragraphs, bare) ==
    \E i \in 1..Len(paragraphs) : \E j \in i..Len(paragraphs) :
        LET run == JoinWith(SubSeq(paragraphs, i, j), <<"\n", "\n">>) IN
        /\ EndsWith(chunk, run)
        /\ bare => chunk = run

\* C23: for a text of paragraphs that are each within max_tokens but together
\* over it, chunk_text returns at least 2 and at most as many chunks as there
\* are paragraphs, every chunk is made of whole paragraphs, and every returned
\* chunk, overlap fragment included, has an estimate within max_tokens.
C23_ParagraphChunksWithinBudget ==
    LET paragraphs == Paragraphs(c_text) IN
    (/\ c_pc = "done"
     /\ c_max_tokens > 0
     /\ count_tokens(c_text) > c_max_tokens
     /\ \A p \in 1..Len(paragraphs) : count_tokens(paragraphs[p]) <= c_max_tokens)
    => /\ Len(c_chunks) >= 2
       /\ Len(c_chunks) <= Len(paragraphs)
       /\ \A k \in 1..Len(c_chunks) :
             /\ ParagraphAligned(c_chunks[k], paragraphs, k = 1 \/ c_overlap = 0)
             /\ count_tokens(c_chunks[k]) <= c_max_tokens

\* ------------------------------------------------------------------- C24
\* the response ends with a non-empty proper prefix of separator_str
EndsTruncated(response) ==
    \E n \in 1..(Len(separator_str) - 1) :
        EndsWith(response, TakeFirst(separator_str, n))

\* C24: in correct_subtitles, whenever the response for a batch ends with a
\* non-empty proper prefix of the separator, the parts added for the batch are
\* those of the response with a line break appended, split on the separator,
\* so that the last part is there and ends with the line break.
C24_TruncatedResponseRepaired ==
    (/\ cs_pc \in {"loop", "done"}
     /\ responses # <<>>
     /\ EndsTruncated(responses[Len(responses)]))
    => LET parts == SplitOn(responses[Len(responses)] \o <<"\n">>, separator_str)
           n == Len(corrected_subtitles) IN
       /\ n >= Len(parts)
       /\ SubSeq(corrected_subtitles, n - Len(parts) + 1, n) = parts

\* ------------------------------------------------------------ C25 and C28
\* the texts of a batch, in order
TextsOf(batch) == [i \in 1..Len(batch) |-> batch[i].text]

\* this step of the loop closes the open batch before the item it handles
ClosesOpenBatch ==
    /\ b_pc = "loop"
    /\ b_next <= Len(items)
    /\ current_batch # <<>>
    /\ Len(batches') > Len(batches)
    /\ batches'[Len(batches) + 1] = current_batch

\* C25: batch_items closes the open batch before an item only if the item is
\* oversized or the running total plus the item plus the separator exceeds
\* max_tokens; so for consecutive returned batches B, B' where B' does not
\* start with an oversized item, the estimate of B plus the separator plus the
\* first item of B' exceeds max_tokens.
C25_GreedyFill ==
    /\ [][ClosesOpenBatch =>
             \/ Oversized(b_next)
             \/ current_token_count + count_tokens(items[b_next].text)
                   + separator_tokens > max_tokens]_vars
    /\ [](b_pc = "done" =>
             \A k \in 1..(Len(batches) - 1) :
                 (/\ batches[k] # <<>>
                  /\ batches[k + 1] # <<>>
                  /\ count_tokens(batches[k + 1][1].text) < max_tokens)
                 => CombinedEstimate(batches[k]) + separator_tokens
                       + count_tokens(batches[k + 1][1].text) > max_tokens)

C25_Witness ==
    /\ b_pc = "done"
    /\ \E k \in 1..(Len(batches) - 1) :
           /\ Len(batches[k]) >= 2
           /\ count_tokens(batches[k + 1][1].text) < max_tokens
           /\ CombinedEstimate(batches[k]) + separator_tokens
                 + count_tokens(batches[k + 1][1].text) = max_tokens + 1

\* C28: at the start of every iteration of the loop of batch_items the running
\* total is the sum of the estimates of the items of the open batch plus one
\* separator estimate per adjacent pair (0 for an empty open batch), which is
\* the estimate of the texts of the open batch joined by the separator.
C28_RunningTotalIsEstimate ==
    b_pc = "loop" =>
        /\ current_token_count =
              (IF current_batch = <<>> THEN 0 ELSE CombinedEstimate(current_batch))
        /\ current_token_count =
              count_tokens(JoinWith(TextsOf(current_batch), SUBTITLE_SEPARATOR))

C28_Witness ==
    /\ b_pc = "loop"
    /\ b_next <= Len(items)
    /\ batches # <<>>
    /\ Len(current_batch) >= 2
    /\ current_token_count = CombinedEstimate(current_batch)

\* ------------------------------------------------------------------- C27
\* C27: in correct_subtitle_file with batch_size = 0 the joined text of every
\* batch of two or more items, built after the ASS line breaks were replaced
\* by the placeholder, has an estimate within max_tokens_per_chunk, so that
\* correct_text sends it to the corrector whole, in one call.
C27_TokenBatchSentWhole ==
    (/\ f_pc = "loop"
     /\ f_batch_size = 0
     /\ ct_pc # "idle"
     /\ Len(f_batches[f_next]) >= 2)
    => /\ count_tokens(text) <= max_tokens_per_chunk
       /\ chunks = <<>>

\* ------------------------------------------------------------------- C29
\* the segments of a text for a limit: its paragraphs, a paragraph that alone
\* exceeds the limit being replaced by its sentences
Segments(txt, limit) ==
    LET paragraphs == Paragraphs(txt) IN
    Flatten([p \in 1..Len(paragraphs) |->
                IF count_tokens(paragraphs[p]) > limit
                THEN SplitSentences(paragraphs[p])
                ELSE <<paragraphs[p]>>])

\* the whitespace-delimited words of the segments, in order
WordsOfAll(segs) == Flatten([s \in 1..Len(segs) |-> SplitWords(segs[s])])

\* chunks k.. are made of the segments s.., whole, one run of segments after
\* the other, and no segment with a word is left over
RECURSIVE CoversFrom(_, _, _, _)
CoversFrom(cs, segs, k, s) ==
    IF k > Len(cs)
    THEN \A t \in s..Len(segs) : SplitWords(segs[t]) = <<>>
    ELSE \E n \in 1..(Len(segs) - s + 1) :
            /\ SplitWords(cs[k]) = WordsOfAll(SubSeq(segs, s, s + n - 1))
            /\ CoversFrom(cs, segs, k + 1, s + n)

\* C29: for a text over a positive max_tokens and an overlap of 0 the chunks
\* of chunk_text cover the segments of the text (its paragraphs, or the
\* sentences of a paragraph that alone exceeds max_tokens) once each and in
\* order, and a chunk's estimate is within max_tokens unless the chunk is one
\* sentence that alone exceeds it.
C29_ChunksCoverSegments ==
    LET segs == Segments(c_text, c_max_tokens) IN
    (/\ c_pc = "done"
     /\ c_max_tokens > 0
     /\ c_overlap = 0
     /\ count_tokens(c_text) > c_max_tokens)
    => /\ CoversFrom(c_chunks, segs, 1, 1)
       /\ \A k \in 1..Len(c_chunks) :
             \/ count_tokens(c_chunks[k]) <= c_max_tokens
             \/ \E s \in 1..Len(segs) :
                   /\ segs[s] = c_chunks[k]
                   /\ SplitSentences(segs[s]) = <<segs[s]>>

C29_Witness ==
    /\ c_pc = "done"
    /\ c_max_tokens > 0
    /\ c_overlap = 0
    /\ count_tokens(c_text) > c_max_tokens
    /\ Len(Segments(c_text, c_max_tokens)) > Len(Paragraphs(c_text))
    /\ Len(c_chunks) >= 2
    /\ \E k \in 1..Len(c_chunks) : count_tokens(c_chunks[k]) > c_max_tokens
    /\ \E k \in 1..Len(c_chunks) : count_tokens(c_chunks[k]) <= c_max_tokens

\* ------------------------------------------------------- subtitle.write_ass
\* longest subtitle list handed to write_ass
MaxAssItems == 2

\* the placeholder parse_ass puts in the place of a formatting tag
TAG_PLACEHOLDER == <<"<", "*", ">">>

\* position of the first "}" at or after position i, 0 when there is none
RECURSIVE TagEnd(_, _)
TagEnd(txt, i) ==
    IF i > Len(txt) THEN 0
    ELSE IF txt[i] = "}" THEN i
    ELSE TagEnd(txt, i + 1)

\* the positions where a match of \{[^}]*\} starts
TagStarts(txt) == {i \in 1..Len(txt) : txt[i] = "{" /\ TagEnd(txt, i) > 0}

\* re.findall(r"(\{[^}]*\})", txt): the formatting tags, left to right
RECURSIVE FindAllTags(_)
FindAllTags(txt) ==
    IF TagStarts(txt) = {} THEN <<>>
    ELSE LET i == CHOOSE o \in TagStarts(txt) : \A q \in TagStarts(txt) : o <= q IN
         <<SubSeq(txt, i, TagEnd(txt, i))>>
            \o FindAllTags(DropFirst(txt, TagEnd(txt, i)))

\* re.sub(r'(\{[^}]*\})', r'<*>', txt): every formatting tag becomes "<*>"
RECURSIVE SubTags(_)
SubTags(txt) ==
    IF TagStarts(txt) = {} THEN txt
    ELSE LET i == CHOOSE o \in TagStarts(txt) : \A q \in TagStarts(txt) : o <= q IN
         TakeFirst(txt, i - 1) \o TAG_PLACEHOLDER
            \o SubTags(DropFirst(txt, TagEnd(txt, i)))

\* parse_ass: the text of an item, from the text of its line: "\n" and "\N"
\* become "\N" and the formatting tags become placeholders
PlainText(raw_text) ==
    SubTags(ReplaceAll(raw_text, <<"\\", "n">>, ASS_LINE_BREAK))

\* parse_ass: the item of line i, whose text has since been set to `txt`
AssItem(i, raw_text, txt) ==
    [index |-> i, start_time |-> 2 * i - 1, end_time |-> 2 * i, text |-> txt,
     raw_text |-> raw_text, format |-> "ass",
     line |-> [text |-> raw_text, start |-> 2 * i - 1, end |-> 2 * i,
               style |-> "Default"],
     meta |-> "meta", parent_file |-> "subs"]

\* the line texts of the files read: plain, with one and with two formatting
\* tags, with either spelling of the line break
AssRawTexts ==
    {<<"a">>, <<"{", "i", "}", "a">>, <<"{", "i", "}", "a", "{", "b", "}", "a">>,
     <<"a", "\\", "N", "a">>, <<"a", "\\", "n", "a">>}

\* what the text of an item may be when it is written: as parsed, with every
\* "a" corrected to "c", or with its line breaks turned into real line breaks
WrittenTexts(raw_text) ==
    {PlainText(raw_text),
     ReplaceAll(PlainText(raw_text), <<"a">>, <<"c">>),
     ReplaceAll(PlainText(raw_text), ASS_LINE_BREAK, <<"\n">>)}

\* a line text paired with a text its item may have
AssTextPairs == UNION {{<<r, t>> : t \in WrittenTexts(r)} : r \in AssRawTexts}

AssItemSeqs ==
    UNION {{[i \in 1..n |-> AssItem(i, pairs[i][1], pairs[i][2])] :
               pairs \in [1..n -> AssTextPairs]}
           : n \in 0..MaxAssItems}

\* corrected_text.replace('\n', '\\N').replace('\\n', '\\N')
LineBreaksToAss(corrected_text) ==
    ReplaceAll(ReplaceAll(corrected_text, <<"\n">>, ASS_LINE_BREAK),
               <<"\\", "n">>, ASS_LINE_BREAK)

\* `"{" in line.text and "}" in line.text`
HasTagChars(line_text) ==
    /\ \E i \in 1..Len(line_text) : line_text[i] = "{"
    /\ \E i \in 1..Len(line_text) : line_text[i] = "}"

\* one iteration of `for subtitle in subtitles`: the event appended for the
\* item.  For a line with "{" and "}" the text with the tags put back is built
\* in the local corrected_text only and line.text is never assigned.
WriteAssLine(subtitle) ==
    IF "text" \in DOMAIN subtitle
    THEN IF HasTagChars(subtitle.line.text)
         THEN subtitle.line
         ELSE [subtitle.line EXCEPT !.text = LineBreaksToAss(subtitle.text)]
    ELSE subtitle.line

\* write_ass(subtitles, output_path): the events saved, or the ValueError of
\* the fallback that has no original_content
write_ass(subs) ==
    IF subs # <<>> /\ "line" \in DOMAIN subs[1]
    THEN [events |-> [i \in 1..Len(subs) |-> WriteAssLine(subs[i])],
          raised |-> "none"]
    ELSE [events |-> <<>>, raised |-> "ValueError"]

InitAss ==
    /\ a_subtitles \in AssItemSeqs
    /\ a_events = <<>>
    /\ a_raised = "none"
    /\ a_pc = "call"
    /\ BatchIdle /\ ChunkIdle /\ MergeIdle /\ CheckerIdle /\ TextIdle /\ ProviderIdle
    /\ SubsIdle /\ FileIdle /\ CliIdle /\ TokenIdle /\ GuiIdle

WriteAssCall ==
    /\ a_pc = "call"
    /\ a_events' = write_ass(a_subtitles).events
    /\ a_raised' = write_ass(a_subtitles).raised
    /\ a_pc' = IF write_ass(a_subtitles).raised = "none" THEN "done" ELSE "raised"
    /\ UNCHANGED a_subtitles
    /\ UNCHANGED <<batchVars, chunkVars, mergeVars, checkerVars, textVars, providerVars>>
    /\ UNCHANGED <<subsVars, fileVars, cliVars, tokenVars, guiVars>>

NextAss == WriteAssCall

SpecWriteAss == InitAss /\ [][NextAss]_vars

\* ------------------------------------------------------------------- C26
\* the text with the k-th placeholder replaced by the k-th tag, in order
RECURSIVE FillTags(_, _)
FillTags(txt, tags) ==
    LET hits == {i \in 1..Len(txt) : MatchesAt(txt, TAG_PLACEHOLDER, i)} IN
    IF tags = <<>> \/ hits = {} THEN txt
    ELSE LET i == CHOOSE h \in hits : \A q \in hits : h <= q IN
         TakeFirst(txt, i - 1) \o Head(tags)
            \o FillTags(DropFirst(txt, i + Len(TAG_PLACEHOLDER) - 1), Tail(tags))

\* C26: for every item that carries a line object write_ass writes an event
\* whose text is the corrected text of the item, each "<*>" replaced by the
\* formatting tag of the original line in order, and whose start, end and style
\* are those of the line, for lines with formatting tags and for lines without.
C26_EventsCarryCorrectedText ==
    a_pc = "done" =>
        /\ Len(a_events) = Len(a_subtitles)
        /\ \A i \in 1..Len(a_subtitles) :
              /\ a_events[i].text =
                    FillTags(LineBreaksToAss(a_subtitles[i].text),
                             FindAllTags(a_subtitles[i].line.text))
              /\ a_events[i].start = a_subtitles[i].line.start
              /\ a_events[i].end = a_subtitles[i].line.end
              /\ a_events[i].style = a_subtitles[i].line.style

\* ------------------------------------------------- gui: check_spelling
\* the marker run_spell_check_blocking sends in the place of "<*>"
TAG_MARKER == <<"§", "T", "A", "G", "§">>

\* the Subtitle objects of the editor: line number, original and changed text
GuiSubtitles(originals) ==
    [i \in 1..Len(originals) |->
        [line_num |-> i, original |-> originals[i], changed |-> originals[i]]]

\* original texts: plain, with a line break, with a tag placeholder
GuiTexts == {<<"a">>, <<"a", "\\", "N", "b">>, <<"<", "*", ">", "a">>}

\* `subtitle.original.replace("\\N", "§LINEBREAK§").replace("<*>", "§TAG§")`
WorkerTexts(subs) ==
    [i \in 1..Len(subs) |->
        ReplaceAll(ReplaceAll(subs[i].original, ASS_LINE_BREAK, LINEBREAK_PLACEHOLDER),
                   TAG_PLACEHOLDER, TAG_MARKER)]

\* the Subtitle objects the worker builds from the corrected texts; a text
\* beyond the last subtitle becomes a subtitle of its own
BuildCorrected(subs, texts) ==
    [i \in 1..Len(texts) |->
        LET subtitle_text ==
                ReplaceAll(ReplaceAll(Strip(texts[i]), LINEBREAK_PLACEHOLDER,
                                      ASS_LINE_BREAK),
                           TAG_MARKER, TAG_PLACEHOLDER) IN
        IF i <= Len(subs)
        THEN [line_num |-> subs[i].line_num, original |-> subs[i].original,
              changed |-> IF subtitle_text = <<>> THEN subs[i].original
                          ELSE subtitle_text]
        ELSE [line_num |-> i, original |-> subtitle_text, changed |-> subtitle_text]]

InitGui ==
    /\ g_subtitles \in {GuiSubtitles(o) : o \in UNION {[1..n -> GuiTexts] : n \in 0..MaxSubs}}
    /\ max_tokens_per_chunk \in MinSubBudget..MaxSubBudget
    /\ chunk_overlap \in {0, MaxOverlap}
    /\ check_btn = "normal"
    /\ result_container = [result |-> None, error |-> None]
    /\ g_error = None
    /\ g_result = None
    /\ g_pc = "start"
    /\ w_pc = "none"
    /\ BatchIdle /\ ChunkIdle /\ MergeIdle /\ TextIdle /\ ProviderIdle /\ SubsIdle
    /\ FileIdle /\ CliIdle /\ TokenIdle /\ AssIdle

\* check_spelling up to the start of the worker thread: it returns early when
\* there is no text, no API key or no spellchecker; else the check button is
\* disabled, the result container created and the thread started
G_Start ==
    /\ g_pc = "start"
    /\ \E configured \in BOOLEAN :
          IF g_subtitles = <<>> \/ ~configured
          THEN /\ g_pc' = "returned"
               /\ UNCHANGED <<check_btn, result_container, w_pc>>
          ELSE /\ check_btn' = "disabled"
               /\ result_container' = [result |-> None, error |-> None]
               /\ w_pc' = "started"
               /\ g_pc' = "waiting"
    /\ UNCHANGED <<g_subtitles, g_error, g_result>>
    /\ UNCHANGED subsVars

\* run_spell_check_blocking up to its call correct_subtitles(texts, 0)
W_Begin ==
    /\ w_pc = "started"
    /\ subtitles' = WorkerTexts(g_subtitles)
    /\ cs_batch_size' = 0
    /\ cs_batches' = <<>>
    /\ cs_next' = 1
    /\ corrected_subtitles' = <<>>
    /\ cs_raised' = "none"
    /\ cs_pc' = "start"
    /\ w_pc' = "calling"
    /\ UNCHANGED <<g_subtitles, check_btn, result_container, g_error, g_result, g_pc>>

\* the end of run_spell_check_blocking: the corrected subtitles are stored
\* under "result", or the exception that left the try block under "error"
W_Store ==
    /\ w_pc = "calling"
    /\ cs_pc \in {"done", "raised"}
    /\ result_container' =
          IF cs_pc = "raised"
          THEN [result_container EXCEPT !.error = cs_raised]
          ELSE [result_container EXCEPT
                   !.result = BuildCorrected(g_subtitles, corrected_subtitles)]
    /\ w_pc' = "stored"
    /\ UNCHANGED <<g_subtitles, check_btn, g_error, g_result, g_pc>>
    /\ UNCHANGED subsVars

\* the target function has returned: the thread is no longer alive
W_Exit ==
    /\ w_pc = "stored"
    /\ w_pc' = "terminated"
    /\ UNCHANGED <<g_subtitles, check_btn, result_container, g_error, g_result, g_pc>>
    /\ UNCHANGED subsVars

\* mutant: the wait loop is left whether or not the thread is alive
G_LeaveWaitEarly ==
    /\ g_pc = "waiting"
    /\ g_pc' = "joined"
    /\ UNCHANGED <<g_subtitles, check_btn, result_container, g_error, g_result, w_pc>>
    /\ UNCHANGED subsVars

\* `while spell_check_thread.is_alive()` ends
G_LeaveWait ==
    /\ g_pc = "waiting"
    /\ w_pc = "terminated"
    /\ g_pc' = "joined"
    /\ UNCHANGED <<g_subtitles, check_btn, result_container, g_error, g_result, w_pc>>
    /\ UNCHANGED subsVars

\* the rest of check_spelling: the button is enabled, the container is read
\* and the error, the empty result or the result is handled
G_Process ==
    /\ g_pc = "joined"
    /\ check_btn' = "normal"
    /\ g_error' = result_container.error
    /\ g_result' = result_container.result
    /\ g_pc' = IF result_container.error # None THEN "error"
               ELSE IF result_container.result \in {None, <<>>} THEN "empty"
               ELSE "success"
    /\ UNCHANGED <<g_subtitles, result_container, w_pc>>
    /\ UNCHANGED subsVars

\* what a step of the GUI or of its worker leaves alone
GuiFrame ==
    UNCHANGED <<batchVars, chunkVars, mergeVars, checkerVars, textVars, providerVars,
                fileVars, cliVars, tokenVars, assVars>>

NextGui ==
    \/ G_Start /\ GuiFrame
    \/ W_Begin /\ GuiFrame
    \/ CS_Batch /\ SubsFrame
    \/ CS_Send /\ SubsFrame
    \/ CS_Receive /\ SubsFrame
    \/ CS_Raise /\ SubsFrame
    \/ CS_Return /\ SubsFrame
    \/ W_Store /\ GuiFrame
    \/ W_Exit /\ GuiFrame
    \/ G_LeaveWait /\ GuiFrame
    \/ G_Process /\ GuiFrame

\* correct_subtitles, called directly or by the worker thread of the GUI
SpecGui == (InitGui \/ InitSubs) /\ [][NextGui]_vars

\* ------------------------------------------------------------------- C30
\* C30: check_spelling reads the result container only after the worker
\* thread has terminated; exactly one of the container's result and error has
\* been assigned by then; and on every path after the read (error, empty
\* result, success) the check button is enabled again.
C30_ReadAfterWorkerEnds ==
    /\ [][(g_pc = "joined" /\ g_pc' # "joined")
             => /\ w_pc = "terminated"
                /\ (result_container.result = None) # (result_container.error = None)
                /\ g_error' = result_container.error
                /\ g_result' = result_container.result]_vars
    /\ [](g_pc \in {"error", "empty", "success"}
             => /\ check_btn = "normal"
                /\ w_pc = "terminated"
                /\ (g_result = None) # (g_error = None))

C30_Witness ==
    /\ g_pc = "error"
    /\ g_error = "TypeError"
    /\ g_result = None
    /\ check_btn = "normal"
    /\ w_pc = "terminated"

====
